---------------------------- MODULE Spec2Model ----------------------------
(***************************************************************************)
(* A model of IB_lab_assistant.py: the feedback post-processor             *)
(* (clean_hidden_math, recalculate_total_score, parse_score), the grading  *)
(* client (grade_submission), the autosave of one report                   *)
(* (autosave_report) and the batch grading loop with its session state.    *)
(*                                                                         *)
(* Text is a sequence of characters, each a one-character string.  Three   *)
(* code points that are not ASCII are written as bracketed tokens:         *)
(* "[memo]" (U+1F4DD), "[glass]" (U+1F50D) and "[warn]" (U+26A0 U+FE0F).   *)
(* Numbers are kept in hundredths (9.5 is 950): every score of the model   *)
(* has at most two fractional digits and is a multiple of 0.25, for which  *)
(* Python's float sums are exact.                                          *)
(***************************************************************************)
EXTENDS Integers, Sequences, FiniteSets, TLC

VARIABLES
    gen,        \* text machine: the parts the input text is built from
    hist,       \* text machine: the input text and the result of each step
    phase,      \* text machine: "raw", "cleaned", "final" or "direct"
    heap,                   \* the list objects of the session, by reference
    current_results,        \* st.session_state.current_results, a reference
    saved_sessions,         \* st.session_state.saved_sessions: name, reference
    current_session_name,   \* st.session_state.current_session_name
    dir_exists,             \* disk: the folder autosave_dir exists
    docs,                   \* disk: the Word documents of the folder
    gradebook,              \* disk: gradebook.csv of the folder
    pc,                     \* "idle", or "grading" inside the batch loop
    processed_files,        \* the accepted files of the uploader, by name
    index,                  \* batch loop: position of the next file
    existing_filenames,     \* batch loop: the local set of line 1059
    run,                    \* history: the number of batch runs started
    prior,                  \* history: filenames graded in an earlier run
    fresh,                  \* history: the entries graded in this run
    autosaved,              \* history: the row of each filename's latest
                            \*          successful autosave, and whether it
                            \*          was autosaved before (again)
    last,                   \* history: what the last loop iteration did
    job,                    \* one call of grade_submission, step by step
    uploader,               \* one call of process_uploaded_files, step by
                            \*     step
    display,                \* one call of display_results_ui: its place and
                            \*     the columns of the spreadsheet
    writer                  \* one call of write_markdown_to_docx: its place and
                            \*     the paragraphs added to the document

textVars == <<gen, hist, phase>>
sessionVars == <<heap, current_results, saved_sessions, current_session_name>>
diskVars == <<dir_exists, docs, gradebook>>
batchVars == <<pc, processed_files, index, existing_filenames>>
historyVars == <<run, prior, fresh, autosaved, last>>
vars == <<textVars, sessionVars, diskVars, batchVars, historyVars, job, uploader,
         display, writer>>

---------------------------------------------------------------------------
(* Characters and character classes of Python's re module.                 *)

Digit == {"0", "1", "2", "3", "4", "5", "6", "7", "8", "9"}
DigitSeq == <<"0", "1", "2", "3", "4", "5", "6", "7", "8", "9">>
NL == "\n"
\* \s and str.strip(): the whitespace of the model's alphabet
WS == {" ", "\n", "\t"}
Emoji == {"[glass]", "[memo]"}

LowerLetters == <<"a", "b", "c", "d", "e", "f", "g", "h", "i", "j", "k", "l", "m",
                  "n", "o", "p", "q", "r", "s", "t", "u", "v", "w", "x", "y", "z">>
UpperLetters == <<"A", "B", "C", "D", "E", "F", "G", "H", "I", "J", "K", "L", "M",
                  "N", "O", "P", "Q", "R", "S", "T", "U", "V", "W", "X", "Y", "Z">>

\* re.IGNORECASE compares letters without their case
Upper(c) ==
    IF \E k \in 1..26 : LowerLetters[k] = c
    THEN UpperLetters[CHOOSE k \in 1..26 : LowerLetters[k] = c]
    ELSE c

InClass(c, cls) ==
    CASE cls = "digit"      -> c \in Digit                \* \d
      [] cls = "ws"         -> c \in WS                   \* \s
      [] cls = "notnl"      -> c # NL                     \* .  (no DOTALL)
      [] cls = "notdigitnl" -> c \notin Digit /\ c # NL   \* [^0-9\n]
      [] cls = "digitdot"   -> c \in Digit \/ c = "."     \* [\d\.]

\* the end (exclusive) of the longest run of cls characters that starts at p
RECURSIVE RunEnd(_, _, _)
RunEnd(t, p, cls) ==
    IF p <= Len(t) /\ InClass(t[p], cls) THEN RunEnd(t, p + 1, cls) ELSE p

CharAt(t, p, c) == p >= 1 /\ p <= Len(t) /\ t[p] = c

\* the literal lit stands at position p of t
MatchLit(t, p, lit) ==
    /\ p >= 1
    /\ p + Len(lit) - 1 <= Len(t)
    /\ \A k \in 1..Len(lit) : t[p + k - 1] = lit[k]

MatchLitIgnoreCase(t, p, lit) ==
    /\ p >= 1
    /\ p + Len(lit) - 1 <= Len(t)
    /\ \A k \in 1..Len(lit) : Upper(t[p + k - 1]) = Upper(lit[k])

SetMax(S) == CHOOSE x \in S : \A y \in S : y <= x
SetMin(S) == CHOOSE x \in S : \A y \in S : x <= y

\* the first position >= p where lit stands, 0 when there is none
FindLit(t, p, lit) ==
    LET ok == {q \in p..(Len(t) - Len(lit) + 1) : MatchLit(t, q, lit)}
    IN  IF ok = {} THEN 0 ELSE SetMin(ok)

---------------------------------------------------------------------------
(* clean_hidden_math                                                       *)

ScratchOpen == <<"<", "m", "a", "t", "h", "_", "s", "c", "r", "a", "t", "c", "h", "p", "a", "d", ">">>
ScratchClose == <<"<", "/", "m", "a", "t", "h", "_", "s", "c", "r", "a", "t", "c", "h", "p", "a", "d", ">">>
OldOpen == <<"<", "<", "<", "M", "A", "T", "H", ":">>
OldClose == <<">", ">", ">">>

\* re.sub(open + '.*?' + close, '', t, flags=re.DOTALL) from position i on:
\* the leftmost open that has a close after it is removed up to its first
\* close, and the scan goes on after that close
RECURSIVE SubBlocks(_, _, _, _)
SubBlocks(t, i, open, close) ==
    LET ok == {o \in i..Len(t) :
                   MatchLit(t, o, open) /\ FindLit(t, o + Len(open), close) # 0}
    IN  IF ok = {} THEN SubSeq(t, i, Len(t))
        ELSE LET o == SetMin(ok)
                 c == FindLit(t, o + Len(open), close)
             IN  SubSeq(t, i, o - 1) \o SubBlocks(t, c + Len(close), open, close)

\* the start of the longest run of whitespace that ends at p
RECURSIVE SpaceStart(_, _)
SpaceStart(t, p) == IF p >= 1 /\ t[p] \in WS THEN SpaceStart(t, p - 1) ELSE p

\* str.strip()
Strip(t) == SubSeq(t, RunEnd(t, 1, "ws"), SpaceStart(t, Len(t)))

\* a faulty variant: the old-style blocks stay
clean_hidden_math_XmlOnly(text) ==
    Strip(SubBlocks(text, 1, ScratchOpen, ScratchClose))

clean_hidden_math(text) ==
    Strip(SubBlocks(SubBlocks(text, 1, ScratchOpen, ScratchClose), 1, OldOpen, OldClose))

---------------------------------------------------------------------------
(* recalculate_total_score: the section pattern                            *)
(*   \d+ \. .+? : [^0-9\n]*? GROUP [^0-9\n]*? / \s* 10                     *)
(* where GROUP is the capturing group  \d+ \.? \d*  .                      *)
(* The engine tries the alternatives of each quantifier in order, the      *)
(* earlier quantifier deciding first.  In this pattern what follows a      *)
(* quantifier leaves most of them one alternative that can succeed:        *)
(*   - the first \d+ is followed by a dot, so it takes the whole run of    *)
(*     digits;                                                             *)
(*   - [^0-9\n]*? before GROUP is followed by a digit, so it runs to the   *)
(*     first character that is a digit or a newline;                       *)
(*   - GROUP is followed by a character that is no digit, so its digits    *)
(*     are whole runs: digits, dot and all the digits after it when the    *)
(*     rest matches from there (the optional dot is tried first),          *)
(*     otherwise the digits before the dot alone;                          *)
(*   - \s* is followed by "1", so it takes the whole run of whitespace.    *)
(* The lazy .+? ends at the first colon, and the lazy run after GROUP at   *)
(* the first slash, from which the rest matches.  A failed match has       *)
(* end = 0.                                                                *)

NumSections == 10

NoMatch == [end |-> 0, from |-> 0, to |-> 0]

\* [^0-9\n]*? / \s* 10 from e: the position after the match, or 0
SectionTail(t, e) ==
    LET qs == {q \in e..RunEnd(t, e, "notdigitnl") :
                  /\ CharAt(t, q, "/")
                  /\ MatchLit(t, RunEnd(t, q + 1, "ws"), <<"1", "0">>)}
    IN  IF qs = {} THEN 0 ELSE RunEnd(t, SetMin(qs) + 1, "ws") + 2

\* GROUP at m and the rest of the pattern: the group is t[from..to-1]
SectionScore(t, m) ==
    LET d == RunEnd(t, m, "digit")
        f == RunEnd(t, d + 1, "digit")
        withDot == SectionTail(t, f)
        without == SectionTail(t, d)
    IN  IF ~(m <= Len(t) /\ t[m] \in Digit) THEN NoMatch
        ELSE IF CharAt(t, d, ".") /\ withDot # 0
        THEN [end |-> withDot, from |-> m, to |-> f]
        ELSE IF without # 0
        THEN [end |-> without, from |-> m, to |-> d]
        ELSE NoMatch

\* : [^0-9\n]*? GROUP ... with the colon at k
SectionAfterName(t, k) ==
    IF CharAt(t, k, ":") THEN SectionScore(t, RunEnd(t, k + 1, "notdigitnl"))
    ELSE NoMatch

\* the whole pattern at i: .+? is one character at least, none a newline
SectionMatchAt(t, i) ==
    LET a == RunEnd(t, i, "digit")
        ks == {k \in (a + 2)..(RunEnd(t, a + 1, "notnl") - 1) :
                  SectionAfterName(t, k).end # 0}
    IN  IF a > i /\ CharAt(t, a, ".") /\ ks # {}
        THEN SectionAfterName(t, SetMin(ks))
        ELSE NoMatch

\* the scan of re.findall from i on: starts are the positions at which
\* the pattern matches; the scan takes the first of them, and goes on
\* after the end of its match
RECURSIVE FindAllFrom(_, _, _)
FindAllFrom(t, starts, i) ==
    LET ps == {j \in starts : j >= i}
        m == SectionMatchAt(t, SetMin(ps))
    IN  IF ps = {} THEN <<>>
        ELSE <<SubSeq(t, m.from, m.to - 1)>> \o FindAllFrom(t, starts, m.end)

\* re.findall(pattern, text): the groups of the matches, left to right, no
\* two matches overlapping (a match starts with a digit)
FindAll(text) ==
    FindAllFrom(text,
                {j \in 1..Len(text) :
                    text[j] \in Digit /\ SectionMatchAt(text, j).end # 0},
                1)

---------------------------------------------------------------------------
(* recalculate_total_score: the sum and the header                         *)

DigitVal(c) == (CHOOSE k \in 1..10 : DigitSeq[k] = c) - 1

RECURSIVE DigitsValue(_)
DigitsValue(ds) ==
    IF ds = <<>> THEN 0
    ELSE 10 * DigitsValue(SubSeq(ds, 1, Len(ds) - 1)) + DigitVal(ds[Len(ds)])

\* float(s) of a group \d+ \.? \d* , in hundredths (at most two fractional
\* digits)
ParseFloat(s) ==
    LET d == RunEnd(s, 1, "digit")
    IN  100 * DigitsValue(SubSeq(s, 1, d - 1))
          + (IF d + 1 <= Len(s) THEN 10 * DigitVal(s[d + 1]) ELSE 0)
          + (IF d + 2 <= Len(s) THEN DigitVal(s[d + 2]) ELSE 0)

RECURSIVE SumSeq(_)
SumSeq(s) == IF s = <<>> THEN 0 ELSE s[1] + SumSeq(Tail(s))

RECURSIVE ToDigits(_)
ToDigits(n) ==
    IF n < 10 THEN <<DigitSeq[n + 1]>>
    ELSE ToDigits(n \div 10) \o <<DigitSeq[(n % 10) + 1]>>

\* a faulty variant: the total is cut to its whole part
FormatTotal_Truncates(total) == ToDigits(total \div 100)

\* f"{int(total)}" when total.is_integer(), else f"{total:.1f}": the exact
\* value rounded to one fractional digit, a tie going to the even digit
FormatTotal(total) ==
    IF total % 100 = 0 THEN ToDigits(total \div 100)
    ELSE LET t == total \div 10
             r == total % 10
             tenths == IF r > 5 \/ (r = 5 /\ t % 2 = 1) THEN t + 1 ELSE t
         IN  ToDigits(tenths \div 10) \o <<".">> \o <<DigitSeq[(tenths % 10) + 1]>>

NoHeader == [found |-> FALSE, from |-> 0, to |-> 0]

\* header_pattern at i, without case: # \s* emoji? \s* SCORE \s* : \s* as
\* group 1, [\d\.]+ as group 2 = t[from..to-1], \s* / \s* 100 as group 3.
\* Every quantifier here is followed by a character outside its class, so
\* only its longest run can match.
HeaderMatchAt(t, i) ==
    IF ~CharAt(t, i, "#") THEN NoHeader
    ELSE LET a == RunEnd(t, i + 1, "ws")
             b == IF a <= Len(t) /\ t[a] \in Emoji THEN a + 1 ELSE a
             c == RunEnd(t, b, "ws")
             d == RunEnd(t, c + 5, "ws")
             e == RunEnd(t, d + 1, "ws")
             f == RunEnd(t, e, "digitdot")
             g == RunEnd(t, f, "ws")
             h == RunEnd(t, g + 1, "ws")
         IN  IF /\ MatchLitIgnoreCase(t, c, <<"S", "C", "O", "R", "E">>)
                /\ CharAt(t, d, ":")
                /\ f > e
                /\ CharAt(t, g, "/")
                /\ MatchLit(t, h, <<"1", "0", "0">>)
             THEN [found |-> TRUE, from |-> e, to |-> f]
             ELSE NoHeader

\* re.search(header_pattern, text, re.IGNORECASE): the leftmost match
HeaderSearch(t) ==
    LET ok == {i \in 1..Len(t) : HeaderMatchAt(t, i).found}
    IN  IF ok = {} THEN NoHeader ELSE HeaderMatchAt(t, SetMin(ok))

NewHeaderOpen == <<"#", " ", "[memo]", " ", "S", "C", "O", "R", "E", ":", " ">>
NewHeaderClose == <<"/", "1", "0", "0", "\n", "\n">>

\* a faulty variant: the new total is put in front of the old one
RewriteHeader_KeepsOld(text, matches) ==
    LET scores == [k \in 1..Len(matches) |-> ParseFloat(matches[k])]
        total_score_str == FormatTotal(SumSeq(scores))
        h == HeaderSearch(text)
    IN  IF h.found
        THEN SubSeq(text, 1, h.from - 1) \o total_score_str \o SubSeq(text, h.from, Len(text))
        ELSE NewHeaderOpen \o total_score_str \o NewHeaderClose \o text

\* a faulty variant: a text without a header stays without one
RewriteHeader_NoPrepend(text, matches) ==
    LET scores == [k \in 1..Len(matches) |-> ParseFloat(matches[k])]
        total_score_str == FormatTotal(SumSeq(scores))
        h == HeaderSearch(text)
    IN  IF h.found
        THEN SubSeq(text, 1, h.from - 1) \o total_score_str \o SubSeq(text, h.to, Len(text))
        ELSE text

\* the branch taken when the pattern has matches
RewriteHeader(text, matches) ==
    LET scores == [k \in 1..Len(matches) |-> ParseFloat(matches[k])]
        total_score_str == FormatTotal(SumSeq(scores))
        h == HeaderSearch(text)
    IN  IF h.found
        THEN SubSeq(text, 1, h.from - 1) \o total_score_str \o SubSeq(text, h.to, Len(text))
        ELSE NewHeaderOpen \o total_score_str \o NewHeaderClose \o text

\* a faulty variant: the header is rewritten only for the expected count
recalculate_total_score_TenOnly(text) ==
    LET matches == FindAll(text)
    IN  IF Len(matches) = NumSections THEN RewriteHeader(text, matches) ELSE text

recalculate_total_score(text) ==
    LET matches == FindAll(text)
    IN  IF matches # <<>> THEN RewriteHeader(text, matches) ELSE text

---------------------------------------------------------------------------
(* parse_score                                                             *)

NA == <<"N", "/", "A">>
\* Python's None, a value that is no text
None == <<"None">>

\* SCORE: \s* [\d\.]+ /100 at p, without case: the [\d\.]+ group, or <<>>
ScoreAt(t, p) ==
    LET a == RunEnd(t, p + 6, "ws")
        b == RunEnd(t, a, "digitdot")
    IN  IF /\ MatchLitIgnoreCase(t, p, <<"S", "C", "O", "R", "E", ":">>)
           /\ b > a
           /\ MatchLit(t, b, <<"/", "1", "0", "0">>)
        THEN SubSeq(t, a, b - 1)
        ELSE <<>>

\* the optional prefix # \s* emoji? \s* and then SCORE:... at i: the prefix
\* is tried first
ParseScoreAt(t, i) ==
    LET a == RunEnd(t, i + 1, "ws")
        b == IF a <= Len(t) /\ t[a] \in Emoji THEN a + 1 ELSE a
        c == RunEnd(t, b, "ws")
    IN  IF CharAt(t, i, "#") /\ ScoreAt(t, c) # <<>> THEN ScoreAt(t, c)
        ELSE ScoreAt(t, i)

\* re.search raises TypeError on None, which parse_score catches
parse_score(text) ==
    IF text = None THEN NA
    ELSE LET ok == {i \in 1..Len(text) : ParseScoreAt(text, i) # <<>>}
         IN  IF ok = {} THEN NA ELSE ParseScoreAt(text, SetMin(ok))

---------------------------------------------------------------------------
(* grade_submission: the request to the grading service and its retries    *)

max_retries == 5
retry_delay == 5

Lower(c) ==
    IF \E k \in 1..26 : UpperLetters[k] = c
    THEN LowerLetters[CHOOSE k \in 1..26 : UpperLetters[k] = c]
    ELSE c

\* file.name.split('.')[-1].lower()
Ext(name) ==
    LET dots == {i \in 1..Len(name) : name[i] = "."}
        from == IF dots = {} THEN 1 ELSE SetMax(dots) + 1
    IN  [i \in 1..(Len(name) - from + 1) |-> Lower(name[from + i - 1])]

\* the outcomes of one call of client.messages.create: a response with a
\* text, or an exception with its message
TransientKinds == {"rate_limit", "overloaded"}
ErrorText == <<"b", "o", "o", "m">>
Response(t) == [kind |-> "text", text |-> t]
Raised(k) == [kind |-> k, text |-> ErrorText]

ErrorPrefix == <<"[warn]", " ", "E", "r", "r", "o", "r", ":", " ">>
ProcessingError ==
    <<"E", "r", "r", "o", "r", " ", "p", "r", "o", "c", "e", "s", "s", "i",
      "n", "g", " ", "f", "i", "l", "e", ".">>

\* the for loop from the given attempt on, against the outcomes of the
\* calls in order: the value returned, the calls made and the sleeps.
\* RateLimitError (a subclass of APIStatusError) and APIStatusError with
\* status 529 sleep and go on; when the range is used up the function ends
\* without a return statement, which returns None.
RECURSIVE Attempts(_, _)
Attempts(outcomes, attempt) ==
    IF attempt >= max_retries
    THEN [result |-> None, calls |-> attempt, waits |-> <<>>]
    ELSE LET o == outcomes[attempt + 1]
         IN  IF o.kind = "text"
             THEN [result |-> recalculate_total_score(clean_hidden_math(o.text)),
                   calls |-> attempt + 1, waits |-> <<>>]
             ELSE IF o.kind \in TransientKinds
             THEN LET r == Attempts(outcomes, attempt + 1)
                  IN  [r EXCEPT !.waits = <<retry_delay * (attempt + 1)>> \o @]
             ELSE [result |-> ErrorPrefix \o o.text,
                   calls |-> attempt + 1, waits |-> <<>>]

\* no call of grade_submission is in progress
NoJob ==
    [at |-> "off", file |-> <<>>, encoded |-> FALSE, outcomes |-> <<>>,
     attempt |-> 0, calls |-> 0, waits |-> <<>>, result |-> None]

---------------------------------------------------------------------------
(* process_uploaded_files.  An upload is its name, and for a zip archive   *)
(* the names of its entries in the order of namelist() and the place where *)
(* reading it raises: 0 when zipfile.ZipFile(file) raises, k when          *)
(* z.read of entry k raises, a number past the entries when nothing does.  *)

IGNORED_FILES ==
    {<<".", "d", "s", "_", "s", "t", "o", "r", "e">>,
     <<"d", "e", "s", "k", "t", "o", "p", ".", "i", "n", "i">>,
     <<"t", "h", "u", "m", "b", "s", ".", "d", "b">>,
     <<"_", "_", "m", "a", "c", "o", "s", "x">>}
VALID_EXTENSIONS ==
    {<<"p", "d", "f">>, <<"p", "n", "g">>, <<"j", "p", "g">>,
     <<"j", "p", "e", "g">>, <<"g", "i", "f">>, <<"w", "e", "b", "p">>,
     <<"d", "o", "c", "x">>}

LowerName(name) == [i \in 1..Len(name) |-> Lower(name[i])]
StartsWith(t, lit) == MatchLit(t, 1, lit)
EndsWith(t, lit) == MatchLit(t, Len(t) - Len(lit) + 1, lit)
Contains(t, lit) == FindLit(t, 1, lit) # 0

\* os.path.basename
Basename(path) ==
    LET slashes == {i \in 1..Len(path) : path[i] = "/"}
    IN  IF slashes = {} THEN path
        ELSE SubSeq(path, SetMax(slashes) + 1, Len(path))

NoCounts == [pdf |-> 0, docx |-> 0, image |-> 0, ignored |-> 0]

\* a faulty variant: an image is not counted
Counted_NoImages(counts, ext) ==
    IF ext = <<"d", "o", "c", "x">> THEN [counts EXCEPT !.docx = @ + 1]
    ELSE IF ext = <<"p", "d", "f">> THEN [counts EXCEPT !.pdf = @ + 1]
    ELSE counts

\* the three-way count of an accepted file
Counted(counts, ext) ==
    IF ext = <<"d", "o", "c", "x">> THEN [counts EXCEPT !.docx = @ + 1]
    ELSE IF ext = <<"p", "d", "f">> THEN [counts EXCEPT !.pdf = @ + 1]
    ELSE [counts EXCEPT !.image = @ + 1]

\* the test of an entry of an archive, on its whole path
ZipEntrySkipped(filename) ==
    \/ \E x \in IGNORED_FILES : Contains(LowerName(filename), x)
    \/ StartsWith(filename, <<".">>)

\* the inner loop over namelist() from entry k on.  acc is final_files,
\* file_counts and the errors reported so far; an accepted file is its
\* name and where its bytes come from.
RECURSIVE ReadEntries(_, _, _)
ReadEntries(file, k, acc) ==
    IF k > Len(file.entries) THEN acc
    ELSE LET filename == file.entries[k]
             ext == Ext(filename)
         IN  IF ZipEntrySkipped(filename) \/ ext \notin VALID_EXTENSIONS
             THEN ReadEntries(file, k + 1, acc)
             ELSE IF file.fails = k
             THEN [acc EXCEPT !.errors = Append(@, file.name)]
             ELSE ReadEntries(file, k + 1,
                      [acc EXCEPT
                          !.final_files =
                              Append(@, [name |-> Basename(filename),
                                         bytes |-> <<file.name, filename>>]),
                          !.file_counts = Counted(@, ext)])

\* the body of the loop over uploaded_files for one upload
LoopBody(file, acc) ==
    LET file_name_lower == LowerName(file.name)
        ext == Ext(file.name)
    IN  IF \/ file_name_lower \in IGNORED_FILES
           \/ StartsWith(file_name_lower, <<".", "_">>)
        THEN acc
        ELSE IF EndsWith(file_name_lower, <<".", "z", "i", "p">>)
        THEN IF file.fails = 0
             THEN [acc EXCEPT !.errors = Append(@, file.name)]
             ELSE ReadEntries(file, 1, acc)
        ELSE IF ext \in VALID_EXTENSIONS
        THEN [acc EXCEPT
                 !.final_files = Append(@, [name |-> file.name,
                                            bytes |-> <<file.name>>]),
                 !.file_counts = Counted(@, ext)]
        ELSE [acc EXCEPT !.file_counts.ignored = @ + 1]

NoFiles == [final_files |-> <<>>, file_counts |-> NoCounts, errors |-> <<>>]

\* the loop over uploaded_files from upload i on
RECURSIVE LoopFrom(_, _, _)
LoopFrom(uploaded_files, i, acc) ==
    IF i > Len(uploaded_files) THEN acc
    ELSE LoopFrom(uploaded_files, i + 1, LoopBody(uploaded_files[i], acc))

process_uploaded_files(uploaded_files) == LoopFrom(uploaded_files, 1, NoFiles)

\* process_uploaded_files is not running
NoUploads ==
    [at |-> "off", uploaded_files |-> <<>>, i |-> 1, files |-> NoFiles]

---------------------------------------------------------------------------
(* parse_feedback_for_csv and the columns of the spreadsheet that          *)
(* display_results_ui exports.  "[bulb]" is the code point U+1F4A1.  Of    *)
(* the dict that parse_feedback_for_csv returns the model keeps the keys,  *)
(* in the order of their insertion, which is what the columns are made of. *)

Letters == {LowerLetters[k] : k \in 1..26} \cup {UpperLetters[k] : k \in 1..26}
\* [A-Za-z\s&]
NameChars == Letters \cup WS \cup {"&"}

IsKept(c) == c \notin {"*", "#"}

\* the end (exclusive) of the run of name characters that starts at p
NameEnd(t, p) ==
    LET stops == {q \in p..Len(t) : t[q] \notin NameChars}
    IN  IF stops = {} THEN Len(t) + 1 ELSE SetMin(stops)

\* the lookahead (?=\n\d+\.|\Z|[bulb]) at position q
ContentStops(t, q) ==
    \/ q = Len(t) + 1
    \/ CharAt(t, q, "[bulb]")
    \/ /\ CharAt(t, q, NL)
       /\ RunEnd(t, q + 1, "digit") > q + 1
       /\ CharAt(t, RunEnd(t, q + 1, "digit"), ".")

\* the section pattern of line 593 at position i: the end of the match and
\* the place of its name group (with the whitespace before it), end 0 when
\* it does not match
CsvSectionAt(t, i) ==
    LET a == RunEnd(t, i, "digit")
        c == NameEnd(t, a + 1)
        s == RunEnd(t, c + 1, "ws")
        e == RunEnd(t, s, "digitdot")
        w == RunEnd(t, e + 3, "ws")
        nls == {q \in (e + 3)..(w - 1) : t[q] = NL}
    IN  IF /\ a > i /\ CharAt(t, a, ".")
           /\ RunEnd(t, a + 1, "ws") > a + 1
           /\ c - (a + 1) >= 2 /\ CharAt(t, c, ":")
           /\ s > c + 1
           /\ e > s /\ MatchLit(t, e, <<"/", "1", "0">>)
           /\ nls # {}
        THEN [end |-> SetMin({q \in (SetMax(nls) + 1)..(Len(t) + 1) :
                                 ContentStops(t, q)}),
              from |-> a + 1, to |-> c]
        ELSE NoMatch

\* re.findall from position i on: the name groups, stripped
RECURSIVE CsvSectionsFrom(_, _, _)
CsvSectionsFrom(t, starts, i) ==
    LET ps == {j \in starts : j >= i}
        m == CsvSectionAt(t, SetMin(ps))
    IN  IF ps = {} THEN <<>>
        ELSE <<Strip(SubSeq(t, m.from, m.to - 1))>>
                \o CsvSectionsFrom(t, starts, m.end)

\* str.title()
Title(name) ==
    [i \in 1..Len(name) |->
        IF i > 1 /\ name[i - 1] \in Letters THEN Lower(name[i])
        ELSE Upper(name[i])]

ScoreSuffix == <<" ", "S", "c", "o", "r", "e">>
FeedbackWord == <<"F", "e", "e", "d", "b", "a", "c", "k">>
OverallSummary ==
    <<"O", "v", "e", "r", "a", "l", "l", " ", "S", "u", "m", "m", "a", "r",
      "y">>
Priority ==
    <<<<"F", "i", "l", "e", "n", "a", "m", "e">>,
      <<"O", "v", "e", "r", "a", "l", "l", " ", "S", "c", "o", "r", "e">>,
      OverallSummary>>

\* a sequence without the later occurrences of its elements
RECURSIVE Dedup(_)
Dedup(s) ==
    IF s = <<>> THEN <<>>
    ELSE LET front == Dedup(SubSeq(s, 1, Len(s) - 1))
         IN  IF \E j \in 1..Len(front) : front[j] = s[Len(s)] THEN front
             ELSE Append(front, s[Len(s)])

\* the two keys of lines 596 and 598 for each section found
RECURSIVE SectionKeys(_)
SectionKeys(names) ==
    IF names = <<>> THEN <<>>
    ELSE <<Title(names[1]) \o ScoreSuffix,
           Title(names[1]) \o <<" ">> \o FeedbackWord>>
            \o SectionKeys(Tail(names))

\* the keys of the dict parse_feedback_for_csv returns
CsvKeys(text) ==
    LET clean_text == SelectSeq(text, IsKept)
        starts == {j \in 1..Len(clean_text) :
                      /\ clean_text[j] \in Digit
                      /\ CsvSectionAt(clean_text, j).end # 0}
    IN  Dedup(<<OverallSummary>>
                 \o SectionKeys(CsvSectionsFrom(clean_text, starts, 1)))

\* the code points of the characters of a column name, for the order of
\* str
CodePoints ==
    <<"\t", "\n", " ", "&">> \o UpperLetters \o LowerLetters
Ord(c) == CHOOSE k \in 1..Len(CodePoints) : CodePoints[k] = c

\* a < b for two str
LexLess(a, b) ==
    \E k \in 1..Len(b) :
        /\ k <= Len(a) + 1
        /\ SubSeq(a, 1, k - 1) = SubSeq(b, 1, k - 1)
        /\ k = Len(a) + 1 \/ Ord(a[k]) < Ord(b[k])

\* x.split(' ')[0]
FirstWord(x) ==
    LET spaces == {i \in 1..Len(x) : x[i] = " "}
    IN  IF spaces = {} THEN x ELSE SubSeq(x, 1, SetMin(spaces) - 1)

\* the key of line 910: (x.split(' ')[0], 'Feedback' in x)
KeyLess(x, y) ==
    \/ LexLess(FirstWord(x), FirstWord(y))
    \/ /\ FirstWord(x) = FirstWord(y)
       /\ ~Contains(x, FeedbackWord)
       /\ Contains(y, FeedbackWord)

\* a faulty variant: the columns stay as they were found
SortColumns_Unsorted(remaining) == remaining

\* list.sort(key=...), which is stable
SortColumns(remaining) ==
    LET n == Len(remaining)
        Rank(i) == 1 + Cardinality({j \in 1..n :
                          \/ KeyLess(remaining[j], remaining[i])
                          \/ /\ ~KeyLess(remaining[i], remaining[j])
                             /\ j < i})
    IN  [k \in 1..n |-> remaining[CHOOSE i \in 1..n : Rank(i) = k]]

\* the keys of the rows of results_list, one after the other
RECURSIVE RowKeys(_, _)
RowKeys(results, keys) ==
    IF results = <<>> THEN <<>>
    ELSE <<Priority[1], Priority[2]>> \o keys[results[1].Feedback]
            \o RowKeys(Tail(results), keys)

IsPriority(c) == \E k \in 1..Len(Priority) : Priority[k] = c
IsRemaining(c) == ~IsPriority(c)

\* lines 904-913: the columns of csv_df in their final order; keys is
\* parse_feedback_for_csv of each feedback
FinalCols(results, keys) ==
    LET cols == Dedup(RowKeys(results, keys))
    IN  SelectSeq(cols, IsPriority) \o SortColumns(SelectSeq(cols, IsRemaining))

\* display_results_ui is not running
NoDisplay == [at |-> "off", final_cols |-> <<>>]

---------------------------------------------------------------------------
(* write_markdown_to_docx.  The document is the sequence of the paragraphs *)
(* added to it; a paragraph is its style (with the level of a heading)    *)
(* and its runs, a run its text and whether it is bold.                    *)

Stars == <<"*", "*">>
HashSpace == <<"#", " ">>
StudentPrefix == <<"S", "T", "U", "D", "E", "N", "T", ":">>
H3Marker == <<"#", "#", "#", " ">>
H2Marker == <<"#", "#", " ">>
Dashes == <<"-", "-", "-">>
Underscores == <<"_", "_", "_">>

\* text.split('\n')
RECURSIVE SplitLines(_)
SplitLines(t) ==
    LET n == FindLit(t, 1, <<NL>>)
    IN  IF n = 0 THEN <<t>>
        ELSE <<SubSeq(t, 1, n - 1)>> \o SplitLines(SubSeq(t, n + 1, Len(t)))

\* t.replace(lit, ''): the occurrences of lit from left to right, none
\* overlapping another
RECURSIVE Removed(_, _)
Removed(t, lit) ==
    LET n == FindLit(t, 1, lit)
    IN  IF n = 0 THEN t
        ELSE SubSeq(t, 1, n - 1) \o Removed(SubSeq(t, n + Len(lit), Len(t)), lit)

\* line.replace(marker, '').replace('*', '').strip()
CleanHeading(line, marker) == Strip(Removed(Removed(line, marker), <<"*">>))

\* re.split(r'(\*\*.*?\*\*)', content): the text before the leftmost
\* "**" that has another "**" after it, the match up to the first such
\* "**", and the split of the rest; the parts of odd index are the text
\* between the matches
RECURSIVE BoldSplit(_)
BoldSplit(content) ==
    LET ok == {o \in 1..Len(content) :
                  MatchLit(content, o, Stars) /\ FindLit(content, o + 2, Stars) # 0}
    IN  IF ok = {} THEN <<content>>
        ELSE LET o == SetMin(ok)
                 e == FindLit(content, o + 2, Stars) + 2
             IN  <<SubSeq(content, 1, o - 1), SubSeq(content, o, e - 1)>>
                    \o BoldSplit(SubSeq(content, e, Len(content)))

\* lines 814-821: one run for each part; part[2:-2] of a part shorter than
\* four characters is empty
RunsOf(content) ==
    LET parts == BoldSplit(content)
    IN  [k \in 1..Len(parts) |->
            IF StartsWith(parts[k], Stars) /\ EndsWith(parts[k], Stars)
            THEN [text |-> Removed(SubSeq(parts[k], 3, Len(parts[k]) - 2), <<"*">>),
                  bold |-> TRUE]
            ELSE [text |-> Removed(parts[k], <<"*">>), bold |-> FALSE]]

\* doc.add_heading(clean, level): a paragraph of the heading style, with
\* one run when clean is not empty
Heading(level, clean) ==
    [style |-> "Heading", level |-> level,
     runs |-> IF clean = <<>> THEN <<>> ELSE <<[text |-> clean, bold |-> FALSE]>>]

\* the branch of the loop body a line takes, after line.strip()
LineKind(line) ==
    IF line = <<>> THEN "blank"
    ELSE IF StartsWith(line, HashSpace) \/ StartsWith(line, StudentPrefix) THEN "title"
    ELSE IF StartsWith(line, H3Marker) THEN "h3"
    ELSE IF StartsWith(line, H2Marker) THEN "h2"
    ELSE IF StartsWith(line, Dashes) \/ StartsWith(line, Underscores) THEN "separator"
    ELSE IF StartsWith(line, <<"*", " ">>) \/ StartsWith(line, <<"-", " ">>) THEN "bullet"
    ELSE "plain"

\* lines 778-821 on one line of the text: the paragraphs added to the
\* document, none or one
LineParagraphs(raw) ==
    LET line == Strip(raw)
        kind == LineKind(line)
    IN  IF kind \in {"blank", "separator"} THEN <<>>
        ELSE IF kind = "title" THEN <<Heading(2, CleanHeading(line, HashSpace))>>
        ELSE IF kind = "h3" THEN <<Heading(3, CleanHeading(line, H3Marker))>>
        ELSE IF kind = "h2" THEN <<Heading(2, CleanHeading(line, H2Marker))>>
        ELSE IF kind = "bullet"
        THEN <<[style |-> "List Bullet", level |-> 0, runs |-> RunsOf(SubSeq(line, 3, Len(line)))]>>
        ELSE <<[style |-> "Normal", level |-> 0, runs |-> RunsOf(line)]>>

RECURSIVE WriteLines(_, _)
WriteLines(lines, i) ==
    IF i > Len(lines) THEN <<>>
    ELSE LineParagraphs(lines[i]) \o WriteLines(lines, i + 1)

\* the paragraphs the function adds to doc for a text
write_markdown_to_docx(text) == WriteLines(SplitLines(text), 1)

\* write_markdown_to_docx is not running
NoWriter == [at |-> "off", text |-> <<>>, lines |-> <<>>, i |-> 1, doc |-> <<>>]

---------------------------------------------------------------------------
(* autosave_report (the definition of line 849, which replaces the one of  *)
(* line 635) and the CSV file as pandas reads and writes it.  A row of the *)
(* gradebook is its Filename cell, its Overall Score cell and the feedback *)
(* its other columns are parsed from.                                      *)

FeedbackSuffix ==
    <<"_", "F", "e", "e", "d", "b", "a", "c", "k", ".", "d", "o", "c", "x">>

\* os.path.splitext(name)[0]: up to the last dot, leading dots aside
SplitextRoot(name) ==
    LET named == {i \in 1..Len(name) : name[i] # "."}
        lead == IF named = {} THEN Len(name) + 1 ELSE SetMin(named)
        dots == {i \in lead..Len(name) : name[i] = "."}
    IN  IF dots = {} THEN name ELSE SubSeq(name, 1, SetMax(dots) - 1)

\* pd.read_csv: a cell that reads as missing
IsNA(c) == c = <<>> \/ c = NA
\* a cell that reads as a number
IsNumeral(c) ==
    /\ \A i \in 1..Len(c) : InClass(c[i], "digitdot")
    /\ \E i \in 1..Len(c) : c[i] \in Digit
    /\ Cardinality({i \in 1..Len(c) : c[i] = "."}) <= 1
IsInteger(c) == IsNumeral(c) /\ \A i \in 1..Len(c) : c[i] \in Digit

\* the dtype read_csv infers for a column
ColumnType(cells) ==
    IF \A i \in 1..Len(cells) : IsInteger(cells[i]) THEN "int64"
    ELSE IF \A i \in 1..Len(cells) : IsNumeral(cells[i]) \/ IsNA(cells[i])
    THEN "float64"
    ELSE "object"

RECURSIVE StripZeros(_)
StripZeros(ds) ==
    IF ds # <<>> /\ ds[Len(ds)] = "0" THEN StripZeros(SubSeq(ds, 1, Len(ds) - 1))
    ELSE ds

\* repr of the float a numeral reads as
FloatRepr(c) ==
    LET dots == {i \in 1..Len(c) : c[i] = "."}
        d == IF dots = {} THEN Len(c) + 1 ELSE SetMin(dots)
        frac == StripZeros(SubSeq(c, d + 1, Len(c)))
    IN  ToDigits(DigitsValue(SubSeq(c, 1, d - 1))) \o <<".">>
          \o (IF frac = <<>> THEN <<"0">> ELSE frac)

\* to_csv of a cell read under the given dtype: NaN is written empty
WriteCell(c, type) ==
    IF type = "int64" THEN ToDigits(DigitsValue(c))
    ELSE IF IsNA(c) THEN <<>>
    ELSE IF type = "float64" THEN FloatRepr(c)
    ELSE c

\* the rows of the file as to_csv writes them back
ReadCsv(rows) ==
    LET type == ColumnType([i \in 1..Len(rows) |-> rows[i].OverallScore])
    IN  [i \in 1..Len(rows) |->
            [rows[i] EXCEPT !.OverallScore = WriteCell(@, type)]]

NoFault == "none"
Faults == {NoFault, "doc", "csv"}

\* a faulty variant: the row of the same filename is kept
autosave_report_Appends(item, folder, documents, book, fault) ==
    LET safe_filename == SplitextRoot(item.Filename) \o FeedbackSuffix
        saved == {d \in documents : d.name # safe_filename}
                     \cup {[name |-> safe_filename, text |-> item.Feedback]}
        row_data == [Filename |-> item.Filename, OverallScore |-> item.Score,
                     Feedback |-> item.Feedback]
        existing_df == ReadCsv(book.rows)
        new_df == IF book.exists THEN Append(existing_df, row_data)
                  ELSE <<row_data>>
    IN  IF item.Feedback = None \/ ~folder \/ fault = "doc"
        THEN [ok |-> FALSE, docs |-> documents, gradebook |-> book]
        ELSE IF fault = "csv"
        THEN [ok |-> FALSE, docs |-> saved, gradebook |-> book]
        ELSE [ok |-> TRUE, docs |-> saved,
              gradebook |-> [exists |-> TRUE, rows |-> new_df]]

\* fault: doc.save raises ("doc"), or read_csv or opening the file for
\* to_csv raises ("csv").  write_markdown_to_docx raises on None
\* (text.split), doc.save raises when the folder does not exist.
autosave_report(item, folder, documents, book, fault) ==
    LET safe_filename == SplitextRoot(item.Filename) \o FeedbackSuffix
        saved == {d \in documents : d.name # safe_filename}
                     \cup {[name |-> safe_filename, text |-> item.Feedback]}
        row_data == [Filename |-> item.Filename, OverallScore |-> item.Score,
                     Feedback |-> item.Feedback]
        existing_df == SelectSeq(ReadCsv(book.rows),
                                 LAMBDA r : r.Filename # item.Filename)
        new_df == IF book.exists THEN Append(existing_df, row_data)
                  ELSE <<row_data>>
    IN  IF item.Feedback = None \/ ~folder \/ fault = "doc"
        THEN [ok |-> FALSE, docs |-> documents, gradebook |-> book]
        ELSE IF fault = "csv"
        THEN [ok |-> FALSE, docs |-> saved, gradebook |-> book]
        ELSE [ok |-> TRUE, docs |-> saved,
              gradebook |-> [exists |-> TRUE, rows |-> new_df]]

---------------------------------------------------------------------------
(* The session: its construction, and the state while no batch is running  *)

NewSessionName ==
    <<"N", "e", "w", " ", "G", "r", "a", "d", "i", "n", "g", " ",
      "S", "e", "s", "s", "i", "o", "n">>

\* an iteration of the loop: what it did ("skip", "graded"), to which file,
\* what autosave_report returned and where the feedback came from
NoStep == [kind |-> "none", file |-> <<>>, ok |-> FALSE, source |-> "none"]

\* lines 390-397, a fresh st.session_state; the uploader is empty
SessionStart ==
    /\ heap = << <<>> >>
    /\ current_results = 1
    /\ saved_sessions = {}
    /\ current_session_name = NewSessionName
    /\ pc = "idle"
    /\ processed_files = <<>>
    /\ index = 1
    /\ existing_filenames = {}

NoHistory ==
    /\ run = 0
    /\ prior = {}
    /\ fresh = {}
    /\ autosaved = {}
    /\ last = NoStep

EmptyDisk ==
    /\ docs = {}
    /\ gradebook = [exists |-> FALSE, rows |-> <<>>]

---------------------------------------------------------------------------
(* The text machine: the two functions of the post-processor applied to    *)
(* texts put together from parts.  A text is                               *)
(*     pre  header  section lines  extra                                   *)
(* A part with scratch blocks names the text it holds outside its blocks   *)
(* (plain) and whether its delimiters stand only at the ends of blocks     *)
(* (whole).                                                                *)

MaxPasses == 2

Z_Line == <<"1", ".", " ", "Z", ":", " ", "2", "/", "1", "0">>
OldBody == <<"x">>
OldHead == <<"<", "<", "<", "M", "A">>
OldRest == <<"T", "H", ":", "1", ".", " ", "Y", ":", " ", "3", "/", "1", "0", ">", ">", ">">>

PreParts ==
    { [txt |-> <<>>, plain |-> <<>>, whole |-> TRUE],
      [txt |-> ScratchOpen \o Z_Line \o ScratchClose \o <<NL>>,
       plain |-> <<NL>>, whole |-> TRUE],
      [txt |-> OldOpen \o OldBody \o OldClose, plain |-> <<>>, whole |-> TRUE],
      [txt |-> OldHead \o OldOpen \o OldBody \o OldClose \o OldRest,
       plain |-> OldHead \o OldRest, whole |-> FALSE] }

Headers ==
    { <<>>,
      <<"#", " ", "S", "C", "O", "R", "E", ":", " ", "1", "0", "0", "/", "1", "0", "0", "\n">>,
      <<"#", " ", "[memo]", " ", "s", "c", "o", "r", "e", " ", ":", " ", "5", "0", " ", "/", " ", "1", "0", "0", "\n">>,
      <<"#", " ", "S", "C", "O", "R", "E", ":", " ", "1", "0", "0", "/", "1", "0", "0", " ", "b", ":", " ", "3", "/", "1", "0", "\n">>,
      <<"S", "C", "O", "R", "E", ":", " ", "9", "0", "/", "1", "0", "0", "\n">> }

C_Lines == <<"\n", "3", ".", " ", "C", ":", " ", "4", "/", "1", "0", "\n">>

ExtraParts ==
    { [txt |-> <<>>, plain |-> <<>>, whole |-> TRUE],
      [txt |-> <<"o", "k", "\n">>, plain |-> <<"o", "k", "\n">>, whole |-> TRUE],
      [txt |-> <<"T", "o", "p", ":", " ", "1", ".", " ", "f", "i", "x", ":", " ", "7", "/", "1", "0", "\n">>,
       plain |-> <<"T", "o", "p", ":", " ", "1", ".", " ", "f", "i", "x", ":", " ", "7", "/", "1", "0", "\n">>,
       whole |-> TRUE],
      [txt |-> ScratchOpen \o C_Lines \o ScratchClose \o <<NL>>,
       plain |-> <<NL>>, whole |-> TRUE] }

\* a score as written in a section line (txt), its numeral (num) and its
\* value in hundredths (val)
Score95 == [txt |-> <<"9", ".", "5">>, num |-> <<"9", ".", "5">>, val |-> 950]
Score8b == [txt |-> <<"*", "*", "8", "*", "*">>, num |-> <<"8">>, val |-> 800]
Score10 == [txt |-> <<"1", "0">>, num |-> <<"1", "0">>, val |-> 1000]
Score925 == [txt |-> <<"9", ".", "2", "5">>, num |-> <<"9", ".", "2", "5">>, val |-> 925]
FirstScores == {Score95, Score8b, Score10, Score925}
OtherScores == {Score95, Score8b}

SectionCounts == {0, 1, NumSections - 1, NumSections}
SectionNames == <<"A", "B", "C", "D", "E", "F", "G", "H", "I", "J">>

\* the well-formed section line  N. NAME: S/10
SectionLine(j, sc) ==
    ToDigits(j) \o <<".", " ", SectionNames[j], ":", " ">> \o sc.txt \o <<"/", "1", "0", "\n">>

ScoreOfLine(g, j) == IF j = 1 THEN g.s1 ELSE g.s

RECURSIVE SectionLines(_, _)
SectionLines(g, j) ==
    IF j > g.n THEN <<>> ELSE SectionLine(j, ScoreOfLine(g, j)) \o SectionLines(g, j + 1)

Gens ==
    { [pre |-> p, hdr |-> h, n |-> n, s1 |-> a, s |-> b, extra |-> x] :
        p \in PreParts, h \in Headers, n \in SectionCounts,
        a \in FirstScores, b \in OtherScores, x \in ExtraParts }

\* one record for each text: the scores of lines that are not there are fixed
GenOk(g) == (g.n = 0 => g.s1 = Score95) /\ (g.n <= 1 => g.s = Score95)

TextOf(g) == g.pre.txt \o g.hdr \o SectionLines(g, 1) \o g.extra.txt

Last(h) == h[Len(h)]
Passes == (Len(hist) - 1) \div 2

TextInit ==
    /\ gen \in {g \in Gens : GenOk(g)}
    /\ hist = <<TextOf(gen)>>
    /\ phase = "raw"
    /\ SessionStart
    /\ dir_exists = TRUE
    /\ EmptyDisk
    /\ NoHistory
    /\ job = NoJob
    /\ uploader = NoUploads
    /\ display = NoDisplay
    /\ writer = NoWriter

\* clean_hidden_math on the input text or on the result of a pass
CleanHiddenMath ==
    /\ phase \in {"raw", "final"}
    /\ Passes < MaxPasses
    /\ hist' = Append(hist, clean_hidden_math(Last(hist)))
    /\ phase' = "cleaned"
    /\ UNCHANGED <<job, uploader, display, writer, gen, sessionVars, diskVars, batchVars, historyVars>>

\* recalculate_total_score on the cleaned text (as grade_submission calls
\* it) or on the input text as it is
RecalculateTotalScore ==
    /\ phase \in {"raw", "cleaned"}
    /\ hist' = Append(hist, recalculate_total_score(Last(hist)))
    /\ phase' = IF phase = "raw" THEN "direct" ELSE "final"
    /\ UNCHANGED <<job, uploader, display, writer, gen, sessionVars, diskVars, batchVars, historyVars>>

TextNext == CleanHiddenMath \/ RecalculateTotalScore

TextSpec == TextInit /\ [][TextNext]_vars

---------------------------------------------------------------------------
(* The program: the sidebar's session buttons, the batch grading loop of   *)
(* the Grade Reports button, and a new browser session over the same disk  *)

MaxRuns == 2
MaxFiles == 2

FileNames == {<<"a", ".", "d", "o", "c", "x">>, <<"a", ".", "p", "d", "f">>}
SessionNames == {<<"P", "3">>}

\* what the grading service may answer
ScratchResponse ==
    <<"<", "m", "a", "t", "h", "_", "s", "c", "r", "a", "t", "c", "h", "p",
      "a", "d", ">", "1", ".", " ", "Z", ":", " ", "2", "/", "1", "0", "<",
      "/", "m", "a", "t", "h", "_", "s", "c", "r", "a", "t", "c", "h", "p",
      "a", "d", ">", "\n", "#", " ", "S", "C", "O", "R", "E", ":", " ", "1",
      "0", "0", "/", "1", "0", "0", "\n", "1", ".", " ", "A", ":", " ", "9",
      ".", "5", "/", "1", "0", "\n">>
SpacedResponse ==
    <<"#", " ", "S", "C", "O", "R", "E", ":", " ", "8", "5", " ", "/", " ",
      "1", "0", "0", "\n", "1", ".", " ", "A", ":", " ", "8", "/", "1", "0",
      "\n">>
BareResponse ==
    <<"#", " ", "S", "C", "O", "R", "E", ":", " ", "8", "5", "/", "1", "0",
      "0", "\n", "o", "k">>
Responses == {ScratchResponse, SpacedResponse, BareResponse}

FinalOutcomes ==
    {Response(t) : t \in Responses} \cup {Raised("status"), Raised("exception")}

\* k transient failures, of alternating kinds
Transients(k, first) ==
    [j \in 1..k |-> Raised(IF j % 2 = 1 THEN first
                           ELSE CHOOSE x \in TransientKinds : x # first)]

\* the outcomes of the calls of one grade_submission: transient failures,
\* then a response or another failure unless every attempt was used up
ServiceRuns ==
    {Transients(k, f) \o <<o>> :
         k \in 0..(max_retries - 1), f \in TransientKinds, o \in FinalOutcomes}
      \cup {Transients(max_retries, f) : f \in TransientKinds}

\* the runs the batch loop is explored with: no transient failure or all
\* but one attempt failing before the last outcome, or every attempt failing
BatchRuns ==
    {r \in ServiceRuns :
        /\ Len(r) \in {1, max_retries}
        /\ Len(r) > 1 => r[1].kind = "rate_limit"}

\* where the value grade_submission returned came from
Source(graded, outcomes) ==
    IF graded.calls = 0 THEN "unreadable"
    ELSE IF outcomes[graded.calls].kind = "text" THEN "response"
    ELSE IF outcomes[graded.calls].kind \in TransientKinds THEN "exhausted"
    ELSE "error"

\* the loop against each run of outcomes, worked out once
Loop == [outcomes \in ServiceRuns |-> Attempts(outcomes, 0)]

\* encoded: encode_file returned the data of a file that is not a .docx
grade_submission(file, encoded, outcomes) ==
    IF Ext(file) # <<"d", "o", "c", "x">> /\ ~encoded
    THEN [result |-> ProcessingError, calls |-> 0, waits |-> <<>>]
    ELSE Loop[outcomes]

\* parse_score of each value grade_submission can return, worked out once
Feedbacks == {Loop[outcomes].result : outcomes \in ServiceRuns} \cup {ProcessingError}
Scores == [feedback \in Feedbacks |-> parse_score(feedback)]

---------------------------------------------------------------------------
(* grade_submission step by step: one call of the function on a file,      *)
(* against the outcomes the service has for its calls.  job.at is the      *)
(* place in the code: "start" (line 676), "call" (the head of the for      *)
(* loop, line 734), "sleep" (lines 755 and 758) and "returned".            *)

ClientInit ==
    /\ gen = <<>>
    /\ hist = <<>>
    /\ phase = "off"
    /\ SessionStart
    /\ dir_exists = TRUE
    /\ EmptyDisk
    /\ NoHistory
    /\ uploader = NoUploads
    /\ display = NoDisplay
    /\ writer = NoWriter
    /\ \E f \in FileNames, e \in BOOLEAN, o \in ServiceRuns :
          job = [NoJob EXCEPT !.at = "start", !.file = f, !.encoded = e,
                              !.outcomes = o]

\* lines 677-729: the request is built; a file that is not a .docx and
\* that encode_file could not read ends the function
BuildRequest ==
    /\ job.at = "start"
    /\ job' = IF Ext(job.file) # <<"d", "o", "c", "x">> /\ ~job.encoded
              THEN [job EXCEPT !.at = "returned", !.result = ProcessingError]
              ELSE [job EXCEPT !.at = "call"]
    /\ UNCHANGED <<uploader, display, writer, textVars, sessionVars, diskVars, batchVars,
                   historyVars>>

\* a faulty variant: the total is recalculated before the scratch blocks
\* are removed
PostProcessed_RecalculatesFirst ==
    [t \in Responses |-> clean_hidden_math(recalculate_total_score(t))]

\* lines 746-749 on each text the service may answer, worked out once
PostProcessed ==
    [t \in Responses |-> recalculate_total_score(clean_hidden_math(t))]

\* the value the iteration returns for one outcome of the call, when it
\* returns
Returned_Raw(o) ==
    IF o.kind = "text"
    THEN [returns |-> TRUE, value |-> o.text]
    ELSE IF o.kind \in TransientKinds
    THEN [returns |-> FALSE, value |-> None]
    ELSE [returns |-> TRUE, value |-> ErrorPrefix \o o.text]

Returned_RetriesAll(o) ==
    IF o.kind = "text"
    THEN [returns |-> TRUE,
          value |-> PostProcessed[o.text]]
    ELSE [returns |-> FALSE, value |-> None]

Returned(o) ==
    IF o.kind = "text"
    THEN [returns |-> TRUE,
          value |-> PostProcessed[o.text]]
    ELSE IF o.kind \in TransientKinds
    THEN [returns |-> FALSE, value |-> None]
    ELSE [returns |-> TRUE, value |-> ErrorPrefix \o o.text]

\* lines 734-762, one iteration up to its return or its sleep
CallService ==
    /\ job.at = "call"
    /\ job.attempt < max_retries
    /\ job.attempt < Len(job.outcomes)
    /\ \E r \in {Returned(job.outcomes[job.attempt + 1])} :
          job' = IF r.returns
                 THEN [job EXCEPT !.at = "returned", !.calls = @ + 1,
                                  !.result = r.value]
                 ELSE [job EXCEPT !.at = "sleep", !.calls = @ + 1]
    /\ UNCHANGED <<uploader, display, writer, textVars, sessionVars, diskVars, batchVars,
                   historyVars>>

\* the sleep of lines 755 and 758
Backoff_Flat(attempt) == retry_delay

Backoff(attempt) == retry_delay * (attempt + 1)

\* time.sleep and continue: the next value of range(max_retries)
Sleep ==
    /\ job.at = "sleep"
    /\ job' = [job EXCEPT !.at = "call", !.attempt = @ + 1,
                          !.waits = Append(@, Backoff(job.attempt))]
    /\ UNCHANGED <<uploader, display, writer, textVars, sessionVars, diskVars, batchVars,
                   historyVars>>

\* range(max_retries) is used up: the function ends without a return
\* statement
FallOffLoop ==
    /\ job.at = "call"
    /\ job.attempt >= max_retries
    /\ job' = [job EXCEPT !.at = "returned", !.result = None]
    /\ UNCHANGED <<uploader, display, writer, textVars, sessionVars, diskVars, batchVars,
                   historyVars>>

ClientNext == BuildRequest \/ CallService \/ Sleep \/ FallOffLoop

ClientSpec == ClientInit /\ [][ClientNext]_vars

\* the function runs on: the call of the service comes back, the sleep
\* ends
ClientFairSpec == ClientSpec /\ WF_vars(ClientNext)

Results == heap[current_results]
Filenames(list) == {list[j].Filename : j \in 1..Len(list)}
NonEmptySeqs(S, n) == UNION {[1..k -> S] : k \in 1..n}

---------------------------------------------------------------------------
(* process_uploaded_files step by step, on the uploads of one              *)
(* st.file_uploader: uploader.at is "loop" inside the for loop of line 481 *)
(* and "returned" after line 511.                                          *)

MaxUploads == 2

A_Pdf == <<"a", ".", "p", "d", "f">>
B_Docx == <<"b", ".", "d", "o", "c", "x">>
N_Txt == <<"n", ".", "t", "x", "t">>
MixedEntries ==
    <<<<"a", ".", "p", "d", "f">>,
      <<"r", "/", "b", ".", "d", "o", "c", "x">>,
      <<"C", ".", "P", "N", "G">>,
      <<"n", ".", "t", "x", "t">>,
      <<".", "D", "S", "_", "S", "t", "o", "r", "e">>>>
HiddenEntries ==
    <<<<"_", "_", "M", "A", "C", "O", "S", "X", "/", ".", "_", "a", ".", "p", "d", "f">>,
      <<"r", "/", ".", "c", ".", "p", "d", "f">>,
      <<"r", "/", "T", "h", "u", "m", "b", "s", ".", "d", "b">>>>
Z_Zip == <<"z", ".", "z", "i", "p">>
H_Zip == <<"h", ".", "Z", "I", "P">>

Direct(name) == [name |-> name, entries |-> <<>>, fails |-> 1]
Archive(name, entries, fails) ==
    [name |-> name, entries |-> entries, fails |-> fails]

\* what may be uploaded: files of several names, and archives that read
\* well, that do not open, or whose second entry does not read
Uploads ==
    {Direct(n) : n \in {A_Pdf, B_Docx, N_Txt,
                        <<".", "D", "S", "_", "S", "t", "o", "r", "e">>,
                        <<".", "_", "a", ".", "p", "d", "f">>,
                        <<".", "c", ".", "p", "d", "f">>}}
      \cup {Archive(Z_Zip, MixedEntries, f) : f \in {0, 2, Len(MixedEntries) + 1}}
      \cup {Archive(H_Zip, HiddenEntries, Len(HiddenEntries) + 1)}

UploadInit ==
    /\ gen = <<>>
    /\ hist = <<>>
    /\ phase = "off"
    /\ SessionStart
    /\ dir_exists = TRUE
    /\ EmptyDisk
    /\ NoHistory
    /\ job = NoJob
    /\ display = NoDisplay
    /\ writer = NoWriter
    /\ \E files \in NonEmptySeqs(Uploads, MaxUploads) :
          uploader = [NoUploads EXCEPT !.at = "loop", !.uploaded_files = files]

\* an iteration after which an unreadable archive ends the function
VisitUpload_Aborts ==
    /\ uploader.at = "loop"
    /\ uploader.i <= Len(uploader.uploaded_files)
    /\ \E after \in {LoopBody(uploader.uploaded_files[uploader.i],
                               uploader.files)} :
          uploader' = [uploader EXCEPT
                          !.i = @ + 1, !.files = after,
                          !.at = IF after.errors # uploader.files.errors
                                 THEN "returned" ELSE "loop"]
    /\ UNCHANGED <<job, display, writer, textVars, sessionVars, diskVars, batchVars,
                   historyVars>>

\* lines 481-510, one iteration of the loop over uploaded_files
VisitUpload ==
    /\ uploader.at = "loop"
    /\ uploader.i <= Len(uploader.uploaded_files)
    /\ uploader' = [uploader EXCEPT
                       !.i = @ + 1,
                       !.files = LoopBody(uploader.uploaded_files[uploader.i],
                                          uploader.files)]
    /\ UNCHANGED <<job, display, writer, textVars, sessionVars, diskVars, batchVars,
                   historyVars>>

\* line 511
ReturnFiles ==
    /\ uploader.at = "loop"
    /\ uploader.i > Len(uploader.uploaded_files)
    /\ uploader' = [uploader EXCEPT !.at = "returned"]
    /\ UNCHANGED <<job, display, writer, textVars, sessionVars, diskVars, batchVars,
                   historyVars>>

UploadNext == VisitUpload \/ ReturnFiles

UploadSpec == UploadInit /\ [][UploadNext]_vars

---------------------------------------------------------------------------
(* display_results_ui on the results of a session, up to the spreadsheet   *)
(* of line 916.  display.at is "start" (line 886), "returned" (line 888),  *)
(* "raised" (an exception left the function) or "shown".                   *)

MaxRows == 2

SummaryPart ==
    <<"O", "V", "E", "R", "A", "L", "L", " ", "S", "U", "M", "M", "A", "R",
      "Y", ":", "\n", "f", "i", "n", "e", "\n", "\n">>
RawBlock ==
    <<"*", "*", "6", ".", " ", "R", "A", "W", " ", "D", "A", "T", "A", ":",
      " ", "9", "/", "1", "0", "*", "*", "\n", "*", " ", "o", "k", "\n",
      "\n">>
AnalysisBlock ==
    <<"7", ".", " ", "D", "a", "t", "a", " ", "A", "n", "a", "l", "y", "s",
      "i", "s", ":", " ", "8", ".", "5", "/", "1", "0", "\n", "*", " ",
      "o", "k", "\n", "\n">>
CollectionBlock ==
    <<"8", ".", " ", "D", "a", "t", "a", " ", "C", "o", "l", "l", "e", "c",
      "t", "i", "o", "n", ":", " ", "7", "/", "1", "0", "\n", "*", " ",
      "o", "k", "\n", "\n">>
BareBlock ==
    <<"9", ".", " ", "E", "v", "a", "l", "u", "a", "t", "i", "o", "n", ":",
      " ", "6", "/", "1", "0", "\n", "1", "0", ".", " ", "R", "e", "f",
      "e", "r", "e", "n", "c", "e", "s", ":", " ", "5", "/", "1", "0",
      "\n", "*", " ", "o", "k", "\n", "\n">>
TipsPart ==
    <<"[bulb]", " ", "T", "O", "P", "\n", "1", ".", " ", "P", "l", "a",
      "n", "\n">>
Blocks == {RawBlock, AnalysisBlock, CollectionBlock, BareBlock}

\* feedback with one or two sections, and None, which grade_submission
\* returns when its attempts are used up
ExportFeedbacks ==
    {SummaryPart \o b \o TipsPart : b \in Blocks}
      \cup {SummaryPart \o b \o c \o TipsPart :
                <<b, c>> \in {x \in Blocks \X Blocks : x[1] # x[2]}}
      \cup {None}

\* parse_feedback_for_csv and parse_score of each text, worked out once
ExportKeys ==
    [f \in ExportFeedbacks \ {None} |-> CsvKeys(f)]
ExportScores == [f \in ExportFeedbacks |-> parse_score(f)]

ExportEntry(k, f) ==
    [Filename |-> IF k % 2 = 1 THEN B_Docx ELSE A_Pdf,
     Score |-> ExportScores[f], Feedback |-> f]

ExportInit ==
    /\ gen = <<>>
    /\ hist = <<>>
    /\ phase = "off"
    /\ \E n \in 0..MaxRows : \E fs \in [1..n -> ExportFeedbacks] :
          heap = << [k \in 1..n |-> ExportEntry(k, fs[k])] >>
    /\ current_results = 1
    /\ saved_sessions = {}
    /\ current_session_name = NewSessionName
    /\ pc = "idle"
    /\ processed_files = <<>>
    /\ index = 1
    /\ existing_filenames = {}
    /\ dir_exists = TRUE
    /\ EmptyDisk
    /\ NoHistory
    /\ job = NoJob
    /\ uploader = NoUploads
    /\ display = [NoDisplay EXCEPT !.at = "start"]
    /\ writer = NoWriter

\* lines 887-888: nothing to show
ReturnEmpty ==
    /\ display.at = "start"
    /\ Results = <<>>
    /\ display' = [display EXCEPT !.at = "returned"]
    /\ UNCHANGED <<job, uploader, writer, textVars, sessionVars, diskVars, batchVars,
                   historyVars>>

\* line 901 on an entry whose Feedback is None: re.sub raises TypeError
RaiseOnNone ==
    /\ display.at = "start"
    /\ \E j \in 1..Len(Results) : Results[j].Feedback = None
    /\ display' = [display EXCEPT !.at = "raised"]
    /\ UNCHANGED <<job, uploader, writer, textVars, sessionVars, diskVars, batchVars,
                   historyVars>>

\* lines 894-916
ShowResults ==
    /\ display.at = "start"
    /\ Results # <<>>
    /\ \A j \in 1..Len(Results) : Results[j].Feedback # None
    /\ display' = [display EXCEPT !.at = "shown",
                                  !.final_cols = FinalCols(Results, ExportKeys)]
    /\ UNCHANGED <<job, uploader, writer, textVars, sessionVars, diskVars, batchVars,
                   historyVars>>

ExportNext == ReturnEmpty \/ RaiseOnNone \/ ShowResults

ExportSpec == ExportInit /\ [][ExportNext]_vars

---------------------------------------------------------------------------
(* write_markdown_to_docx step by step, on an empty document.  writer.at   *)
(* is "start" (line 775), "line" (the head of the for loop, line 777) and  *)
(* "returned".                                                             *)

MaxLines == 2

\* the lines a feedback text is made of
BlankLine == <<>>
SpacesLine == <<" ", " ">>
DashRule == <<"-", "-", "-">>
UnderscoreRule == <<"_", "_", "_">>
ScoreLine == <<"#", " ", "*", "*", "S", ":", " ", "8", "*", "*">>
StudentLine == <<"S", "T", "U", "D", "E", "N", "T", ":", " ", "x">>
H3Line == <<"#", "#", "#", " ", "T">>
H2Line == <<"#", "#", " ", "T">>
StarBullet == <<"*", " ", "b">>
DashBullet == <<"-", " ", "*", "*", "b", "*", "*", " ", "c", "*">>
PlainLine == <<"a">>
StarRule == <<"*", "*", "*">>
StarTitle == <<"#", " ", "*">>
FourStars == <<"*", "*", "*", "*">>
FeedbackLines ==
    {BlankLine, SpacesLine, DashRule, UnderscoreRule, ScoreLine, StudentLine,
     H3Line, H2Line, StarBullet, DashBullet, PlainLine, StarRule, StarTitle,
     FourStars}

\* '\n'.join(lines)
RECURSIVE Joined(_)
Joined(lines) ==
    IF Len(lines) = 1 THEN lines[1]
    ELSE lines[1] \o <<NL>> \o Joined(Tail(lines))

RenderInit ==
    /\ gen = <<>>
    /\ hist = <<>>
    /\ phase = "off"
    /\ SessionStart
    /\ dir_exists = TRUE
    /\ EmptyDisk
    /\ NoHistory
    /\ job = NoJob
    /\ uploader = NoUploads
    /\ display = NoDisplay
    /\ \E ls \in NonEmptySeqs(FeedbackLines, MaxLines) :
          writer = [NoWriter EXCEPT !.at = "start", !.text = Joined(ls)]

\* line 776
SplitText ==
    /\ writer.at = "start"
    /\ writer' = [writer EXCEPT !.at = "line", !.lines = SplitLines(writer.text)]
    /\ UNCHANGED <<job, uploader, display, textVars, sessionVars, diskVars,
                   batchVars, historyVars>>

ThisLine == Strip(writer.lines[writer.i])
AtLine == writer.at = "line" /\ writer.i <= Len(writer.lines)

\* lines 779-780 and 802-803: the two 'continue' that add nothing
SkipLine ==
    /\ AtLine
    /\ LineKind(ThisLine) \in {"blank", "separator"}
    /\ writer' = [writer EXCEPT !.i = @ + 1]
    /\ UNCHANGED <<job, uploader, display, textVars, sessionVars, diskVars,
                   batchVars, historyVars>>

\* lines 783-799: the three kinds of heading
AddHeading ==
    /\ AtLine
    /\ LineKind(ThisLine) \in {"title", "h3", "h2"}
    /\ writer' = [writer EXCEPT !.i = @ + 1,
                                !.doc = @ \o LineParagraphs(writer.lines[writer.i])]
    /\ UNCHANGED <<job, uploader, display, textVars, sessionVars, diskVars,
                   batchVars, historyVars>>

\* lines 806-821: a bullet or a plain paragraph and its runs
AddParagraph ==
    /\ AtLine
    /\ LineKind(ThisLine) \in {"bullet", "plain"}
    /\ writer' = [writer EXCEPT !.i = @ + 1,
                                !.doc = @ \o LineParagraphs(writer.lines[writer.i])]
    /\ UNCHANGED <<job, uploader, display, textVars, sessionVars, diskVars,
                   batchVars, historyVars>>

\* the for loop is over
ReturnDoc ==
    /\ writer.at = "line"
    /\ writer.i > Len(writer.lines)
    /\ writer' = [writer EXCEPT !.at = "returned"]
    /\ UNCHANGED <<job, uploader, display, textVars, sessionVars, diskVars,
                   batchVars, historyVars>>

RenderNext == SplitText \/ SkipLine \/ AddHeading \/ AddParagraph \/ ReturnDoc

RenderSpec == RenderInit /\ [][RenderNext]_vars

Init ==
    /\ gen = <<>>
    /\ hist = <<>>
    /\ phase = "off"
    /\ SessionStart
    /\ dir_exists \in BOOLEAN
    /\ EmptyDisk
    /\ NoHistory
    /\ job = NoJob
    /\ uploader = NoUploads
    /\ display = NoDisplay
    /\ writer = NoWriter

\* lines 390-397 in a new browser session: the disk stays as it is
NewSession ==
    /\ pc = "idle"
    /\ run > 0
    /\ heap' = << <<>> >>
    /\ current_results' = 1
    /\ saved_sessions' = {}
    /\ current_session_name' = NewSessionName
    /\ processed_files' = <<>>
    /\ index' = 1
    /\ existing_filenames' = {}
    /\ prior' = prior \cup {x.Filename : x \in fresh}
    /\ fresh' = {}
    /\ last' = NoStep
    /\ UNCHANGED <<job, uploader, display, writer, pc, run, autosaved, textVars, diskVars>>

\* a faulty variant: the session is saved as a copy of the list
SaveSession_Copies(save_name) ==
    /\ pc = "idle"
    /\ Results # <<>>
    /\ heap' = Append(heap, Results)
    /\ saved_sessions' = {s \in saved_sessions : s.name # save_name}
                             \cup {[name |-> save_name, ref |-> Len(heap) + 1]}
    /\ UNCHANGED <<job, uploader, display, writer, current_results, current_session_name,
                   textVars, diskVars, batchVars, historyVars>>

\* lines 991-996, the Save Session button
SaveSession(save_name) ==
    /\ pc = "idle"
    /\ Results # <<>>
    /\ saved_sessions' = {s \in saved_sessions : s.name # save_name}
                             \cup {[name |-> save_name, ref |-> current_results]}
    /\ UNCHANGED <<job, uploader, display, writer, heap, current_results, current_session_name,
                   textVars, diskVars, batchVars, historyVars>>

\* lines 1003-1007, the Load button
LoadSession(selected_session) ==
    /\ pc = "idle"
    /\ \E s \in saved_sessions :
          /\ s.name = selected_session
          /\ current_results' = s.ref
    /\ current_session_name' = selected_session
    /\ UNCHANGED <<job, uploader, display, writer, heap, saved_sessions, textVars, diskVars, batchVars,
                   historyVars>>

\* lines 1008-1011, the Delete button
DeleteSession(selected_session) ==
    /\ pc = "idle"
    /\ \E s \in saved_sessions : s.name = selected_session
    /\ saved_sessions' = {s \in saved_sessions : s.name # selected_session}
    /\ UNCHANGED <<job, uploader, display, writer, heap, current_results, current_session_name,
                   textVars, diskVars, batchVars, historyVars>>

\* a faulty variant: the run starts with no file taken as graded
StartBatch_NoLookup(files) ==
    /\ pc = "idle"
    /\ run < MaxRuns
    /\ files # <<>>
    /\ processed_files' = files
    /\ existing_filenames' = {}
    /\ index' = 1
    /\ pc' = "grading"
    /\ run' = run + 1
    /\ prior' = prior \cup {x.Filename : x \in fresh}
    /\ fresh' = {}
    /\ last' = NoStep
    /\ UNCHANGED <<job, uploader, display, writer, autosaved, textVars, sessionVars, diskVars>>

\* a faulty variant: only the files graded with a total are taken as
\* graded
StartBatch_RetriesFailed(files) ==
    /\ pc = "idle"
    /\ run < MaxRuns
    /\ files # <<>>
    /\ processed_files' = files
    /\ existing_filenames' =
          {Results[j].Filename : j \in {k \in 1..Len(Results) : Results[k].Score # NA}}
    /\ index' = 1
    /\ pc' = "grading"
    /\ run' = run + 1
    /\ prior' = prior \cup {x.Filename : x \in fresh}
    /\ fresh' = {}
    /\ last' = NoStep
    /\ UNCHANGED <<job, uploader, display, writer, autosaved, textVars, sessionVars, diskVars>>

\* lines 1043-1059, the Grade Reports button up to the loop
StartBatch(files) ==
    /\ pc = "idle"
    /\ run < MaxRuns
    /\ files # <<>>
    /\ processed_files' = files
    /\ existing_filenames' = Filenames(Results)
    /\ index' = 1
    /\ pc' = "grading"
    /\ run' = run + 1
    /\ prior' = prior \cup {x.Filename : x \in fresh}
    /\ fresh' = {}
    /\ last' = NoStep
    /\ UNCHANGED <<job, uploader, display, writer, autosaved, textVars, sessionVars, diskVars>>

\* lines 1061-1067, an iteration that skips its file
SkipFile ==
    /\ pc = "grading"
    /\ index <= Len(processed_files)
    /\ processed_files[index] \in existing_filenames
    /\ index' = index + 1
    /\ last' = [NoStep EXCEPT !.kind = "skip", !.file = processed_files[index]]
    /\ UNCHANGED <<job, uploader, display, writer, pc, processed_files, existing_filenames, run, prior, fresh,
                   autosaved, textVars, sessionVars, diskVars>>

GradeFile_KeepsSavedOnly(encoded, outcomes, fault) ==
    /\ pc = "grading"
    /\ index <= Len(processed_files)
    /\ processed_files[index] \notin existing_filenames
    /\ \E graded \in {grade_submission(processed_files[index], encoded, outcomes)} :
       \E new_entry \in {[Filename |-> processed_files[index],
                          Score |-> Scores[graded.result],
                          Feedback |-> graded.result]} :
       \E autosave \in {autosave_report(new_entry, dir_exists, docs, gradebook, fault)} :
          /\ heap' = IF autosave.ok
                     THEN [heap EXCEPT ![current_results] = Append(@, new_entry)]
                     ELSE heap
          /\ docs' = autosave.docs
          /\ gradebook' = autosave.gradebook
          /\ existing_filenames' = existing_filenames \cup {new_entry.Filename}
          /\ fresh' = fresh \cup {[Filename |-> new_entry.Filename,
                                    Score |-> new_entry.Score,
                                    Feedback |-> new_entry.Feedback,
                                    ok |-> autosave.ok]}
          /\ autosaved' =
                IF autosave.ok
                THEN {r \in autosaved : r.Filename # new_entry.Filename}
                       \cup {[Filename |-> new_entry.Filename,
                               OverallScore |-> new_entry.Score,
                               Feedback |-> new_entry.Feedback,
                               again |-> \E r \in autosaved :
                                            r.Filename = new_entry.Filename]}
                ELSE autosaved
          /\ last' = [kind |-> "graded", file |-> new_entry.Filename,
                      ok |-> autosave.ok, source |-> Source(graded, outcomes)]
    /\ index' = index + 1
    /\ UNCHANGED <<job, uploader, display, writer, pc, processed_files, run, prior, dir_exists, textVars,
                   current_results, saved_sessions, current_session_name>>

\* a faulty variant: line 1096 is missing
GradeFile_NoAdd(encoded, outcomes, fault) ==
    /\ pc = "grading"
    /\ index <= Len(processed_files)
    /\ processed_files[index] \notin existing_filenames
    /\ \E graded \in {grade_submission(processed_files[index], encoded, outcomes)} :
       \E new_entry \in {[Filename |-> processed_files[index],
                          Score |-> Scores[graded.result],
                          Feedback |-> graded.result]} :
       \E autosave \in {autosave_report(new_entry, dir_exists, docs, gradebook, fault)} :
          /\ heap' = [heap EXCEPT ![current_results] = Append(@, new_entry)]
          /\ docs' = autosave.docs
          /\ gradebook' = autosave.gradebook
          /\ existing_filenames' = existing_filenames
          /\ fresh' = fresh \cup {[Filename |-> new_entry.Filename,
                                    Score |-> new_entry.Score,
                                    Feedback |-> new_entry.Feedback,
                                    ok |-> autosave.ok]}
          /\ autosaved' =
                IF autosave.ok
                THEN {r \in autosaved : r.Filename # new_entry.Filename}
                       \cup {[Filename |-> new_entry.Filename,
                               OverallScore |-> new_entry.Score,
                               Feedback |-> new_entry.Feedback,
                               again |-> \E r \in autosaved :
                                            r.Filename = new_entry.Filename]}
                ELSE autosaved
          /\ last' = [kind |-> "graded", file |-> new_entry.Filename,
                      ok |-> autosave.ok, source |-> Source(graded, outcomes)]
    /\ index' = index + 1
    /\ UNCHANGED <<job, uploader, display, writer, pc, processed_files, run, prior, dir_exists, textVars,
                   current_results, saved_sessions, current_session_name>>

\* lines 1069-1117, an iteration that grades its file.  Nothing in the try
\* block raises before existing_filenames.add: grade_submission,
\* parse_score and autosave_report catch what they raise.  graded is the
\* value of the call of line 1076 with its account, new_entry the entry of
\* line 1080, autosave what the call of line 1089 writes and returns.
GradeFile(encoded, outcomes, fault) ==
    /\ pc = "grading"
    /\ index <= Len(processed_files)
    /\ processed_files[index] \notin existing_filenames
    /\ \E graded \in {grade_submission(processed_files[index], encoded, outcomes)} :
       \E new_entry \in {[Filename |-> processed_files[index],
                          Score |-> Scores[graded.result],
                          Feedback |-> graded.result]} :
       \E autosave \in {autosave_report(new_entry, dir_exists, docs, gradebook, fault)} :
          /\ heap' = [heap EXCEPT ![current_results] = Append(@, new_entry)]
          /\ docs' = autosave.docs
          /\ gradebook' = autosave.gradebook
          /\ existing_filenames' = existing_filenames \cup {new_entry.Filename}
          /\ fresh' = fresh \cup {[Filename |-> new_entry.Filename,
                                    Score |-> new_entry.Score,
                                    Feedback |-> new_entry.Feedback,
                                    ok |-> autosave.ok]}
          /\ autosaved' =
                IF autosave.ok
                THEN {r \in autosaved : r.Filename # new_entry.Filename}
                       \cup {[Filename |-> new_entry.Filename,
                               OverallScore |-> new_entry.Score,
                               Feedback |-> new_entry.Feedback,
                               again |-> \E r \in autosaved :
                                            r.Filename = new_entry.Filename]}
                ELSE autosaved
          /\ last' = [kind |-> "graded", file |-> new_entry.Filename,
                      ok |-> autosave.ok, source |-> Source(graded, outcomes)]
    /\ index' = index + 1
    /\ UNCHANGED <<job, uploader, display, writer, pc, processed_files, run, prior, dir_exists, textVars,
                   current_results, saved_sessions, current_session_name>>

\* line 1119, after the loop
FinishBatch ==
    /\ pc = "grading"
    /\ index > Len(processed_files)
    /\ pc' = "idle"
    /\ UNCHANGED <<job, uploader, display, writer, processed_files, index, existing_filenames, textVars,
                   sessionVars, diskVars, historyVars>>

\* grading, over the sessions of one disk
Next ==
    \/ NewSession
    \/ \E files \in NonEmptySeqs(FileNames, MaxFiles) : StartBatch(files)
    \/ SkipFile
    \/ \E encoded \in BOOLEAN, outcomes \in BatchRuns, fault \in Faults :
          GradeFile(encoded, outcomes, fault)
    \/ FinishBatch

Spec == Init /\ [][Next]_vars

\* grading and the History Manager of the sidebar
SessionNext ==
    \/ Next
    \/ \E n \in SessionNames : SaveSession(n)
    \/ \E n \in SessionNames : LoadSession(n)
    \/ \E n \in SessionNames : DeleteSession(n)

SessionSpec == Init /\ [][SessionNext]_vars

---------------------------------------------------------------------------
(* Reading a text, for the properties below (none of this is the program)  *)

\* the numeral of the first line that starts a header with "#"
ReadHeaderTotal(t) ==
    LET hs == {i \in 1..Len(t) : t[i] = "#"}
    IN  IF hs = {} THEN <<>>
        ELSE LET i == SetMin(hs)
                 ds == {j \in i..(RunEnd(t, i, "notnl") - 1) : InClass(t[j], "digitdot")}
             IN  IF ds = {} THEN <<>>
                 ELSE SubSeq(t, SetMin(ds), RunEnd(t, SetMin(ds), "digitdot") - 1)

\* the value of a numeral in hundredths
RECURSIVE Hundredths(_)
Hundredths(s) ==
    LET dots == {i \in 1..Len(s) : s[i] = "."}
    IN  IF s = <<>> THEN 0
        ELSE IF dots = {}
        THEN 10 * Hundredths(SubSeq(s, 1, Len(s) - 1)) + 100 * DigitVal(s[Len(s)])
        ELSE LET d == SetMin(dots)
             IN  Hundredths(SubSeq(s, 1, d - 1))
                   + (IF d + 1 <= Len(s) THEN 10 * DigitVal(s[d + 1]) ELSE 0)
                   + (IF d + 2 <= Len(s) THEN DigitVal(s[d + 2]) ELSE 0)

\* v rounded to one fractional digit, a tie going to the even digit
RoundedToTenth(v) ==
    LET r == v % 10
        down == v - r
    IN  IF r < 5 THEN down
        ELSE IF r > 5 THEN down + 10
        ELSE IF (down \div 10) % 2 = 0 THEN down ELSE down + 10

RECURSIVE TotalOf(_)
TotalOf(nums) == IF nums = <<>> THEN 0 ELSE Hundredths(nums[1]) + TotalOf(Tail(nums))

\* the numerals and the sum of the section lines the text was built with
GenNums(g) == [j \in 1..g.n |-> ScoreOfLine(g, j).num]
RECURSIVE GenSumFrom(_, _)
GenSumFrom(g, j) == IF j > g.n THEN 0 ELSE ScoreOfLine(g, j).val + GenSumFrom(g, j + 1)
GenSum(g) == GenSumFrom(g, 1)

\* the text outside the scratch blocks of the input text
PlainOf(g) == g.pre.plain \o g.hdr \o SectionLines(g, 1) \o g.extra.plain

\* t holds a delimited scratch block of either style
HasBlock(t) ==
    \/ \E o \in 1..Len(t) :
           MatchLit(t, o, ScratchOpen) /\ FindLit(t, o + Len(ScratchOpen), ScratchClose) # 0
    \/ \E o \in 1..Len(t) :
           MatchLit(t, o, OldOpen) /\ FindLit(t, o + Len(OldOpen), OldClose) # 0

\* out is t without its leading and trailing whitespace
IsTrimOf(out, t) ==
    \E i \in 1..(Len(t) + 1) : \E j \in 0..Len(t) :
        /\ out = SubSeq(t, i, j)
        /\ \A k \in 1..(i - 1) : t[k] \in WS
        /\ \A k \in (j + 1)..Len(t) : t[k] \in WS
        /\ out # <<>> => out[1] \notin WS /\ out[Len(out)] \notin WS

\* the last step was recalculate_total_score, from In to Out
Recalculated == phase \in {"direct", "final"}
In == hist[Len(hist) - 1]
Out == hist[Len(hist)]

\* the input text held ten section lines and a "# SCORE: old/100" header
TenLinesAndHeader == gen.n = NumSections /\ gen.hdr # <<>> /\ gen.hdr[1] = "#"

---------------------------------------------------------------------------
(* C1  Sum invariant.                                                      *)

\* C1 as claimed: whatever else the text holds, the header total of the
\* text recalculate_total_score returns is the sum of the ten S values.
C1_SumWhateverElse ==
    (Recalculated /\ TenLinesAndHeader)
        => Hundredths(ReadHeaderTotal(Out)) = GenSum(gen)

\* C1 as amended: when the section pattern matches the ten section lines
\* and nothing else of the text, the header total of the returned text is
\* the sum of the ten S values, rounded to one fractional digit.
C1_SumOfTenLines ==
    (Recalculated /\ TenLinesAndHeader /\ FindAll(In) = GenNums(gen))
        => Hundredths(ReadHeaderTotal(Out)) = RoundedToTenth(GenSum(gen))

C1_Witness ==
    /\ phase = "direct"
    /\ TenLinesAndHeader
    /\ FindAll(In) = GenNums(gen)
    /\ gen.s1 = Score95 /\ gen.s = Score8b
    /\ ReadHeaderTotal(In) = <<"1", "0", "0">>
    /\ ReadHeaderTotal(Out) = <<"8", "1", ".", "5">>

---------------------------------------------------------------------------
(* C3  Idempotent recalculation.                                           *)

SecondPass == phase = "final" /\ Len(hist) >= 5
FirstOut == hist[Len(hist) - 2]
FirstCleaned == hist[Len(hist) - 3]

---------------------------------------------------------------------------
(* C4  Scratch-work removal.                                               *)

CleanedInput == phase = "cleaned" /\ Len(hist) = 2

---------------------------------------------------------------------------
(* C5  Malformed header tolerance.                                         *)

\* C5: when the text has no header the header pattern can replace and the
\* section pattern finds a score, recalculate_total_score returns the text
\* with a new header line put before it, whose total is the sum of the
\* scores found (rounded to one fractional digit).
C5_HeaderPrepended ==
    LET found == FindAll(In)
    IN  (Recalculated /\ ~HeaderSearch(In).found /\ found # <<>>)
            => /\ Len(Out) > Len(In)
               /\ SubSeq(Out, Len(Out) - Len(In) + 1, Len(Out)) = In
               /\ MatchLit(Out, 1, <<"#", " ", "[memo]", " ", "S", "C", "O", "R",
                                     "E", ":", " ">>)
               /\ Hundredths(ReadHeaderTotal(Out)) = RoundedToTenth(TotalOf(found))
               /\ SubSeq(Out, 1, Len(Out) - Len(In))
                     = <<"#", " ", "[memo]", " ", "S", "C", "O", "R", "E", ":", " ">>
                         \o ReadHeaderTotal(Out) \o <<"/", "1", "0", "0", "\n", "\n">>

C5_Witness ==
    /\ phase = "direct"
    /\ gen.hdr = <<>>
    /\ gen.n = 1 /\ gen.s1 = Score925
    /\ FindAll(In) = <<Score925.num>>
    /\ ReadHeaderTotal(Out) = <<"9", ".", "2">>

---------------------------------------------------------------------------
(* C6  Parsing shortfall.                                                  *)

\* C6: with k section scores found, 1 <= k < 10, the header of the returned
\* text holds the sum of those k scores (rounded to one fractional digit);
\* with none found the text is returned unchanged.
C6_Shortfall ==
    LET found == FindAll(In)
    IN  Recalculated =>
            /\ (Len(found) \in 1..(NumSections - 1)
                   => Hundredths(ReadHeaderTotal(Out)) = RoundedToTenth(TotalOf(found)))
            /\ (found = <<>> => Out = In)

C6_Witness ==
    /\ phase = "direct"
    /\ Len(FindAll(In)) = NumSections - 1
    /\ gen.n = NumSections - 1
    /\ ReadHeaderTotal(In) = <<"1", "0", "0">>
    /\ ReadHeaderTotal(Out) = <<"7", "3", ".", "5">>

---------------------------------------------------------------------------
(* Reading the batch loop's state, for the properties below                *)

\* the entry the last iteration appended
LastEntry == Results[Len(Results)]
GradedStep == last.kind = "graded"

\* two cells that read_csv reads as the same value
SameCell(c, d) ==
    \/ c = d
    \/ IsNA(c) /\ IsNA(d)
    \/ IsNumeral(c) /\ IsNumeral(d) /\ Hundredths(c) = Hundredths(d)

RowsOf(f) == {i \in 1..Len(gradebook.rows) : gradebook.rows[i].Filename = f}
EntriesOf(f) == {j \in 1..Len(Results) : Results[j].Filename = f}

IsErrorString(feedback) ==
    /\ feedback # None
    /\ Len(feedback) >= Len(ErrorPrefix)
    /\ SubSeq(feedback, 1, Len(ErrorPrefix)) = ErrorPrefix

---------------------------------------------------------------------------
(* C2.  For every result the grading loop produces from a model response,  *)
(* the Score of the result (parse_score of the post-processed feedback)    *)
(* is the sum of the section scores found in that same feedback text, and  *)
(* never the total the model printed.                                      *)
(* Not so: the header pattern of recalculate_total_score accepts            *)
(* whitespace around the slash of "/100" and after SCORE, parse_score does *)
(* not; the total is rewritten in a header that parse_score cannot read.   *)

C2_ScoreIsSectionSum ==
    (GradedStep /\ last.source = "response") =>
        /\ LastEntry.Score # NA
        /\ Hundredths(LastEntry.Score)
             = RoundedToTenth(TotalOf(FindAll(LastEntry.Feedback)))

---------------------------------------------------------------------------
(* C7.  After any sequence of successful autosave_report calls on one      *)
(* folder the gradebook holds exactly one row per filename autosaved, and  *)
(* the row of a filename holds the data of its latest autosave.            *)
(* Not so for the cells: each autosave reads the table and writes it back, *)
(* and the Overall Score cells of the rows it keeps come back as pandas    *)
(* read them, N/A as an empty cell and 85 as 85.0 next to a missing value. *)

C7_OneRowLatestData ==
    /\ Len(gradebook.rows) = Cardinality(autosaved)
    /\ {gradebook.rows[i].Filename : i \in 1..Len(gradebook.rows)}
          = {r.Filename : r \in autosaved}
    /\ \A r \in autosaved :
          r.again => \E i \in 1..Len(gradebook.rows) :
                        /\ gradebook.rows[i].Filename = r.Filename
                        /\ gradebook.rows[i].OverallScore = r.OverallScore
                        /\ gradebook.rows[i].Feedback = r.Feedback

---------------------------------------------------------------------------
(* C8.  When the same filename is submitted in two separate batch runs,    *)
(* after the second run the prior state of the filename is overwritten:    *)
(* the results list holds the second run's result for it and the gradebook *)
(* has one row for it with the second run's score.                         *)

---------------------------------------------------------------------------
(* C9.  In a batch run, a file whose name is in the current results list   *)
(* (from an earlier run of the session or an earlier file of the run) is   *)
(* skipped: the iteration is the one that does not call grade_submission,  *)
(* and it changes neither the results list nor the gradebook nor the       *)
(* documents.                                                              *)

C9_SkipLeavesAll ==
    [][(/\ pc = "grading"
        /\ index <= Len(processed_files)
        /\ processed_files[index] \in Filenames(Results))
          => /\ last'.kind = "skip"
             /\ last'.file = processed_files[index]
             /\ index' = index + 1
             /\ UNCHANGED <<sessionVars, diskVars>>]_vars

\* a file has been skipped that an earlier file of the same run graded
C9_Witness ==
    /\ last.kind = "skip"
    /\ last.file \in Filenames(Results)
    /\ \E x \in fresh : x.Filename = last.file

---------------------------------------------------------------------------
(* C10.  When every attempt of grade_submission for a file fails with a    *)
(* transient error, grade_submission returns an error string that stands   *)
(* for the feedback, and the batch goes on.                                *)
(* Not so: after the last attempt the for loop ends and the function       *)
(* returns None.                                                           *)

C10_ExhaustionGivesErrorString ==
    (GradedStep /\ last.source = "exhausted") =>
        /\ IsErrorString(LastEntry.Feedback)
        /\ pc = "grading"

---------------------------------------------------------------------------
(* Reading one call of grade_submission, for the properties below          *)

PermanentKinds == {"status", "exception"}
JobOutcome(k) == job.outcomes[k]
JobReturned == job.at = "returned"

\* the sleeps after k failed attempts, as the retry policy has them
LinearWaits(k) == [j \in 1..k |-> retry_delay * j]

---------------------------------------------------------------------------
(* C11.  When a call of the service fails with anything other than a rate  *)
(* limit error or a status 529, grade_submission makes no further call and *)
(* no wait and returns the error string made of the warning sign,          *)
(* " Error: " and the message of the failure; nothing is raised to the     *)
(* caller.  As a property of every state: if the k-th call failed so, the  *)
(* function has returned that string, k calls were made, and the only      *)
(* sleeps are those of the k - 1 calls before it.                          *)

C11_PermanentFailure ==
    \A k \in 1..job.calls :
        JobOutcome(k).kind \in PermanentKinds =>
            /\ JobReturned
            /\ job.result = ErrorPrefix \o JobOutcome(k).text
            /\ job.calls = k
            /\ Len(job.waits) = k - 1

\* the third call failed with a status that is not 529
C11_Witness ==
    /\ JobReturned
    /\ job.calls = 3
    /\ JobOutcome(3).kind = "status"
    /\ job.waits = <<5, 10>>
    /\ job.result = ErrorPrefix \o ErrorText

---------------------------------------------------------------------------
(* C12.  Grading one file makes at most max_retries = 5 calls of the       *)
(* service and then ends, also when every call fails with a transient      *)
(* error; a call is made again only after a rate limit error or a status   *)
(* 529; and the sleep after the k-th failed attempt is retry_delay times   *)
(* k.                                                                      *)

C12_RetryPolicy ==
    /\ [](job.calls <= max_retries)
    /\ <>JobReturned
    /\ [][job'.calls # job.calls =>
              /\ job'.calls = job.calls + 1
              /\ job.calls > 0 => JobOutcome(job.calls).kind \in TransientKinds]_vars
    /\ [](/\ Len(job.waits) \in {job.calls - 1, job.calls}
          /\ job.waits = LinearWaits(Len(job.waits))
          /\ job.at = "call" => Len(job.waits) = job.calls)

\* every one of the five calls failed with a transient error
C12_Witness ==
    /\ JobReturned
    /\ job.calls = max_retries
    /\ \A k \in 1..max_retries : JobOutcome(k).kind \in TransientKinds
    /\ job.waits = <<5, 10, 15, 20, 25>>

---------------------------------------------------------------------------
(* C13.  The batch always completes with a best-effort result per file:    *)
(* the loop visits every accepted file and ends, and afterwards every      *)
(* accepted file has an entry in the results list whose Feedback is graded *)
(* text or error text and whose Score is a total or "N/A".                 *)
(* Not so for the Feedback: when every attempt of grade_submission met a   *)
(* transient error the entry's Feedback is None, which is no text.         *)

IsText(feedback) == feedback # None
IsTotalOrNA(score) == score = NA \/ IsNumeral(score)

C13_BestEffortEntryPerFile ==
    (pc = "idle" /\ run > 0) =>
        \A k \in 1..Len(processed_files) :
            \E j \in EntriesOf(processed_files[k]) :
                /\ IsText(Results[j].Feedback)
                /\ IsTotalOrNA(Results[j].Score)

---------------------------------------------------------------------------
(* C14.  When autosave_report fails for a file, the result of the file is  *)
(* in the results list all the same, the failure is that file's warning    *)
(* only (the iteration's record has ok = FALSE, which selects the warning  *)
(* of line 1093 instead of the success message), and the loop goes on to   *)
(* the next file.  As a property of every step of an iteration that grades *)
(* a file and whose autosave fails.                                        *)

C14_AutosaveFailureNotBlocking ==
    [][(/\ pc = "grading"
        /\ index <= Len(processed_files)
        /\ processed_files[index] \notin Filenames(Results)
        /\ ~last'.ok)
          => /\ last'.kind = "graded"
             /\ last'.file = processed_files[index]
             /\ Len(Results') = Len(Results) + 1
             /\ SubSeq(Results', 1, Len(Results)) = Results
             /\ Results'[Len(Results')].Filename = processed_files[index]
             /\ pc' = "grading"
             /\ index' = index + 1
             /\ processed_files' = processed_files
             /\ \A x \in fresh : x \in fresh']_vars

\* the autosave of the first file of a batch failed, the second file was
\* graded and saved after it
C14_Witness ==
    /\ Len(Results) = 2
    /\ \E x \in fresh : x.Filename = Results[1].Filename /\ ~x.ok
    /\ \E x \in fresh : x.Filename = Results[2].Filename /\ x.ok
    /\ GradedStep /\ last.ok /\ last.file = Results[2].Filename
    /\ Len(gradebook.rows) = 1

---------------------------------------------------------------------------
(* C15.  Starting from any state of the disk, the folder there or not,     *)
(* once a file has been graded and before the next file begins, its        *)
(* document is in the folder and its row is in the gradebook.              *)
(* Not so when the folder is not there: the autosave_report in force (line *)
(* 849) does not make it, and the save of the document fails.              *)

DocumentOf(f) == SplitextRoot(f) \o FeedbackSuffix
HasDocument(f) == \E d \in docs : d.name = DocumentOf(f)

C15_SavedBeforeNextFile ==
    (GradedStep /\ ~dir_exists /\ last.source = "response")
        => /\ HasDocument(last.file)
           /\ RowsOf(last.file) # {}

---------------------------------------------------------------------------
(* Reading one call of process_uploaded_files, for the properties below    *)

FilesReturned == uploader.at = "returned"
Uploaded == uploader.uploaded_files
IsArchive(file) == EndsWith(LowerName(file.name), <<".", "z", "i", "p">>)
ReadsWell(file) == file.fails > Len(file.entries)

\* the entries of the uploaded archives, as upload and place in it
Entries ==
    UNION {{<<u, k>> : k \in 1..Len(Uploaded[u].entries)} :
              u \in 1..Len(Uploaded)}
EntryName(e) == Uploaded[e[1]].entries[e[2]]
Unsupported(e) ==
    ~ZipEntrySkipped(EntryName(e)) /\ Ext(EntryName(e)) \notin VALID_EXTENSIONS
Accepted(e) ==
    ~ZipEntrySkipped(EntryName(e)) /\ Ext(EntryName(e)) \in VALID_EXTENSIONS

\* the uploads for which an error is reported
Unread(b) ==
    IsArchive(Uploaded[b]) /\ LoopBody(Uploaded[b], NoFiles).errors # <<>>
Without(b) ==
    SubSeq(Uploaded, 1, b - 1) \o SubSeq(Uploaded, b + 1, Len(Uploaded))
OneUnread(b) ==
    /\ FilesReturned
    /\ b \in 1..Len(Uploaded)
    /\ \A c \in 1..Len(Uploaded) : Unread(c) <=> c = b

---------------------------------------------------------------------------
(* C16.  For zip uploads, every inner entry with an accepted extension     *)
(* that is not junk is returned as an accepted file, every inner entry     *)
(* with an unsupported extension adds one to the ignored count, and junk   *)
(* entries are dropped without being counted.                              *)
(* Not so for the ignored count: the loop over the entries of an archive   *)
(* has no branch that counts an entry it does not accept.                  *)

C16_ArchiveCounts ==
    (/\ FilesReturned
     /\ \A u \in 1..Len(Uploaded) :
            IsArchive(Uploaded[u]) /\ ReadsWell(Uploaded[u]))
        => /\ Len(uploader.files.final_files)
                = Cardinality({e \in Entries : Accepted(e)})
           /\ uploader.files.file_counts.ignored
                = Cardinality({e \in Entries : Unsupported(e)})

---------------------------------------------------------------------------
(* C17.  No file that process_uploaded_files returns, uploaded as it is or *)
(* taken from an archive, has a base name that is a junk name (without     *)
(* regard to case) or that starts with a dot.                              *)
(* Not so for the dot: an upload is tested for the prefix "._" only, and   *)
(* an entry of an archive for a dot at the start of its path, not of its   *)
(* base name.                                                              *)

C17_NoJunkReturned ==
    \A j \in 1..Len(uploader.files.final_files) :
        LET name == uploader.files.final_files[j].name
        IN  /\ LowerName(name) \notin IGNORED_FILES
            /\ ~StartsWith(name, <<".">>)

---------------------------------------------------------------------------
(* C18.  When one uploaded archive cannot be read, an error is reported    *)
(* for that upload and every other upload is normalized, in order.         *)

\* C18 as claimed: the files and the counts returned are those of the
\* uploads without the archive.
C18_AsIfNotUploaded ==
    \A b \in 1..Len(Uploaded) :
        OneUnread(b) =>
            /\ uploader.files.errors = <<Uploaded[b].name>>
            /\ uploader.files.final_files
                  = process_uploaded_files(Without(b)).final_files
            /\ uploader.files.file_counts
                  = process_uploaded_files(Without(b)).file_counts

\* C18 as amended: the files returned are those of the uploads without
\* the archive, with the entries of the archive that were read before the
\* failure standing at the archive's place and counted; they are exactly
\* those of the uploads without the archive when the archive did not open.
C18_OthersNormalized ==
    \A b \in 1..Len(Uploaded) :
        OneUnread(b) =>
            LET others == process_uploaded_files(Without(b))
                before == process_uploaded_files(SubSeq(Uploaded, 1, b - 1))
                read == LoopBody(Uploaded[b], NoFiles)
                p == Len(before.final_files)
                got == uploader.files
            IN  /\ got.errors = <<Uploaded[b].name>>
                /\ got.final_files
                      = SubSeq(others.final_files, 1, p)
                          \o read.final_files
                          \o SubSeq(others.final_files, p + 1,
                                    Len(others.final_files))
                /\ got.file_counts
                      = [c \in DOMAIN NoCounts |->
                            others.file_counts[c] + read.file_counts[c]]
                /\ Uploaded[b].fails = 0 =>
                      /\ got.final_files = others.final_files
                      /\ got.file_counts = others.file_counts

\* an archive that does not open, followed by a Word document
C18_Witness ==
    /\ OneUnread(1)
    /\ Len(Uploaded) = 2
    /\ Uploaded[1].fails = 0
    /\ Uploaded[2] = Direct(B_Docx)
    /\ Len(uploader.files.final_files) = 1
    /\ uploader.files.final_files[1].name = B_Docx
    /\ uploader.files.errors = <<Z_Zip>>

---------------------------------------------------------------------------
(* C19.  After any sequence of successful autosaves the folder holds one   *)
(* feedback document for each distinct filename autosaved, so the          *)
(* documents of two different report files never share a name.             *)
(* Not so: the name of the document is the filename without its extension  *)
(* and "_Feedback.docx", the same for a.docx and a.pdf.                    *)

C19_OneDocumentPerFile ==
    Cardinality({d.name : d \in docs})
        >= Cardinality({r.Filename : r \in autosaved})

---------------------------------------------------------------------------
(* C20.  For any results, the exported columns start with Filename,        *)
(* Overall Score, Overall Summary, and each section's Score column is      *)
(* immediately followed by the Feedback column of the same section.        *)
(* Not so for two sections whose names start with the same word: the sort  *)
(* key is the first word of the column name, and then whether the name     *)
(* holds "Feedback".                                                       *)

Shown == display.at = "shown"
IsScoreColumn(c) ==
    /\ IsRemaining(c)
    /\ EndsWith(c, ScoreSuffix)
FeedbackColumnOf(c) ==
    SubSeq(c, 1, Len(c) - Len(ScoreSuffix)) \o <<" ">> \o FeedbackWord

C20_ColumnOrder ==
    Shown =>
        /\ SubSeq(display.final_cols, 1, 3) = Priority
        /\ \A p \in 4..Len(display.final_cols) :
              IsScoreColumn(display.final_cols[p]) =>
                  /\ p < Len(display.final_cols)
                  /\ display.final_cols[p + 1]
                        = FeedbackColumnOf(display.final_cols[p])

---------------------------------------------------------------------------
(* Reading the text a call of grade_submission returned for a response     *)

\* the call returned what it made of a text the service answered
ReturnedFromText ==
    /\ JobReturned
    /\ job.calls > 0
    /\ JobOutcome(job.calls).kind = "text"
raw_text == JobOutcome(job.calls).text

\* what stands between the first opening tag of a scratch block and its
\* closing tag
InsideBlock(t) ==
    LET o == FindLit(t, 1, ScratchOpen)
        c == IF o = 0 THEN 0 ELSE FindLit(t, o + Len(ScratchOpen), ScratchClose)
    IN  IF c = 0 THEN <<>> ELSE SubSeq(t, o + Len(ScratchOpen), c - 1)

---------------------------------------------------------------------------
(* C21.  grade_submission returns the raw text of the response unmodified: *)
(* it neither removes scratch blocks nor rewrites the score header.        *)
(* Not so: lines 746-751 return recalculate_total_score of                 *)
(* clean_hidden_math of the raw text.                                      *)

---------------------------------------------------------------------------
(* C22.  For every response, the scratch blocks are removed before the     *)
(* total is recalculated: a section line that stands only inside a scratch *)
(* block adds nothing to the total of the returned text.  As a property of *)
(* every state: the header total of the text returned for a response with  *)
(* section lines outside its scratch block is the sum of the section       *)
(* scores of the raw text less those inside the block.                     *)

C22_ScratchLinesNotCounted ==
    (ReturnedFromText /\ FindAll(job.result) # <<>>) =>
        Hundredths(ReadHeaderTotal(job.result))
           = RoundedToTenth(TotalOf(FindAll(raw_text))
                              - TotalOf(FindAll(InsideBlock(raw_text))))

\* the response held "1. Z: 2/10" inside its scratch block and a section
\* line of 9.5 outside
C22_Witness ==
    /\ ReturnedFromText
    /\ FindAll(InsideBlock(raw_text)) = <<<<"2">>>>
    /\ TotalOf(FindAll(raw_text)) = 1150
    /\ Hundredths(ReadHeaderTotal(job.result)) = 950

---------------------------------------------------------------------------
(* Reading the document write_markdown_to_docx made                        *)

RECURSIVE VisibleFrom(_, _)
VisibleFrom(runs, k) ==
    IF k > Len(runs) THEN <<>> ELSE runs[k].text \o VisibleFrom(runs, k + 1)

\* the text of a paragraph as a reader sees it
VisibleText(paragraph) == VisibleFrom(paragraph.runs, 1)

DocReturned == writer.at = "returned"

---------------------------------------------------------------------------
(* C23.  For every feedback text, write_markdown_to_docx adds no paragraph *)
(* and no heading whose visible text is empty; blank lines and horizontal  *)
(* rule lines add nothing.                                                 *)
(* Not so: a line made of asterisks only, "***" (a horizontal rule of      *)
(* Markdown) or "****", passes every test of the loop and gets a paragraph *)
(* whose runs are all empty once the asterisks are stripped; a heading     *)
(* line with nothing but asterisks after its marker gets an empty heading. *)

C23_NoEmptyParagraph ==
    \A k \in 1..Len(writer.doc) : VisibleText(writer.doc[k]) # <<>>

---------------------------------------------------------------------------
(* Reading the results lists of a session, for the properties below        *)

\* the entry is the result of a grading that failed
IsFailed(entry) ==
    /\ entry.Score = NA
    /\ \/ entry.Feedback = None
       \/ entry.Feedback = ProcessingError
       \/ IsErrorString(entry.Feedback)

\* the step grades a file: the loop calls grade_submission and appends
GradingStep == index' = index + 1 /\ last'.kind = "graded"

---------------------------------------------------------------------------
(* C24.  Starting from an empty results list, after any sequence of batch  *)
(* runs and of Save Session, Load and Delete, no two entries of the        *)
(* current results list have the same Filename.                            *)

C24_UniqueFilenames ==
    \A i, j \in 1..Len(Results) :
        Results[i].Filename = Results[j].Filename => i = j

\* the second file of a batch had the name of the first and was skipped,
\* with the list saved and loaded before
C24_Witness ==
    /\ saved_sessions # {}
    /\ current_session_name \in SessionNames
    /\ last.kind = "skip"
    /\ Len(processed_files) = 2
    /\ processed_files[1] = processed_files[2]
    /\ index = 3
    /\ \E x \in fresh : x.Filename = last.file

---------------------------------------------------------------------------
(* C25.  A failed grading is final within a session: when the grading of a *)
(* file ends in an error result (an error string or no text, Score "N/A"), *)
(* the result is appended to the results list and the name counts as       *)
(* graded, and no later step of the session grades a file whose entry in   *)
(* the results list is such a result: the loop skips it, in this run and   *)
(* in every later one, without a call of the service.                      *)

C25_FailedIsFinal ==
    [][/\ (GradingStep /\ last'.source # "response") =>
              /\ heap'[current_results'] = Append(Results, heap'[current_results'][Len(Results) + 1])
              /\ heap'[current_results'][Len(Results) + 1].Filename = last'.file
              /\ IsFailed(heap'[current_results'][Len(Results) + 1])
              /\ last'.file \in existing_filenames'
       /\ \A j \in 1..Len(Results) :
              IsFailed(Results[j]) =>
                  ~(GradingStep /\ last'.file = Results[j].Filename)
       /\ (pc' = "grading" => Filenames(heap'[current_results']) \subseteq existing_filenames')
      ]_vars

\* a later run of the session skipped a file whose grading had failed
C25_Witness ==
    /\ run = 2
    /\ last.kind = "skip"
    /\ \E x \in prior : x = last.file
    /\ fresh = {}
    /\ \E j \in 1..Len(Results) :
          Results[j].Filename = last.file /\ IsFailed(Results[j])

---------------------------------------------------------------------------
(* C26.  A successful autosave_report for a filename f leaves every row of *)
(* the gradebook whose Filename is not f unchanged and in the same         *)
(* relative order, and places the row of f last.                           *)
(* Not so for the cells of the other rows: the table is read with          *)
(* read_csv and written back whole, and a cell "N/A" comes back empty, a   *)
(* cell "85" as "85.0" when its column reads as float64.                   *)

C26_UpsertFrame ==
    [][(GradingStep /\ last'.ok) =>
          /\ gradebook'.rows # <<>>
          /\ gradebook'.rows[Len(gradebook'.rows)].Filename = last'.file
          /\ SelectSeq(gradebook'.rows, LAMBDA r : r.Filename # last'.file)
                = SelectSeq(gradebook.rows, LAMBDA r : r.Filename # last'.file)
      ]_vars

---------------------------------------------------------------------------
(* C27.  For any list of uploads, the number of files that                 *)
(* process_uploaded_files returns is counts['docx'] + counts['pdf'] +      *)
(* counts['image'], and the returned files keep the order of the uploads,  *)
(* the entries of an archive in the order of the archive and in the place  *)
(* of the archive.                                                         *)

\* where the files of the uploads can come from, in the order of the
\* uploads: an upload itself, or each entry of an archive
RECURSIVE SourcesFrom(_)
SourcesFrom(u) ==
    IF u > Len(Uploaded) THEN <<>>
    ELSE (IF IsArchive(Uploaded[u])
          THEN [k \in 1..Len(Uploaded[u].entries) |->
                   <<Uploaded[u].name, Uploaded[u].entries[k]>>]
          ELSE <<<<Uploaded[u].name>>>>) \o SourcesFrom(u + 1)

\* s is t with some of its elements left out
RECURSIVE IsSubsequence(_, _)
IsSubsequence(s, t) ==
    IF s = <<>> THEN TRUE
    ELSE IF t = <<>> THEN FALSE
    ELSE IF s[1] = t[1] THEN IsSubsequence(Tail(s), Tail(t))
    ELSE IsSubsequence(s, Tail(t))

C27_CountsAndOrder ==
    /\ Len(uploader.files.final_files)
          = uploader.files.file_counts.docx + uploader.files.file_counts.pdf
              + uploader.files.file_counts.image
    /\ FilesReturned =>
          IsSubsequence([k \in 1..Len(uploader.files.final_files) |->
                            uploader.files.final_files[k].bytes],
                        SourcesFrom(1))

\* a report, then an archive of three reports of the three kinds
C27_Witness ==
    /\ FilesReturned
    /\ Len(Uploaded) = 2
    /\ ~IsArchive(Uploaded[1])
    /\ IsArchive(Uploaded[2])
    /\ Len(uploader.files.final_files) = 4
    /\ uploader.files.file_counts.image = 1
    /\ uploader.files.final_files[1].bytes = <<Uploaded[1].name>>
    /\ uploader.files.final_files[2].bytes = <<Uploaded[2].name, Uploaded[2].entries[1]>>

---------------------------------------------------------------------------
(* C28.  After Save Session stores the current results under a name, the   *)
(* results graded afterwards in the same session are in that saved session *)
(* as well: a saved session is the results list itself, not a copy of it   *)
(* at the time of the save.  As a property of every step: a step that      *)
(* grades a file appends the new entry to every saved session, and every   *)
(* saved session is the current results list.                              *)

C28_SavedIsLive ==
    [][/\ GradingStep =>
              \A s \in saved_sessions :
                  heap'[s.ref] = Append(heap[s.ref], heap'[current_results'][Len(Results) + 1])
       /\ \A s \in saved_sessions' : heap'[s.ref] = heap'[current_results']
      ]_vars

\* the list was saved with one entry and a later run graded a second file
C28_Witness ==
    /\ pc = "grading"
    /\ run = 2
    /\ last.kind = "graded"
    /\ \E s \in saved_sessions :
          /\ Len(heap[s.ref]) = 2
          /\ heap[s.ref][2].Filename = last.file
          /\ heap[s.ref][1].Filename \in prior

=============================================================================
